---------------------------- MODULE Spec2Model ----------------------------
(***************************************************************************)
(* A model of the hireai resume pipeline: the skill normalizer             *)
(* (hireai/core/parser.py), the experience aggregator                      *)
(* (Backup/hireai/core/resume_parser.py), the lexical similarity engine    *)
(* (hireai/core/similarity.py) and the rankers (Backup/hireai/core/        *)
(* ranker.py, search.py, hireai/examples/end_to_end_demo.py).              *)
(*                                                                         *)
(* Python str values are TLA+ strings; a character is a string of length   *)
(* one.  Python values whose type matters are records tagged with the      *)
(* Python type name in field t.  A Python float is a record [m, e] of an   *)
(* integer significand and a binary exponent, and float arithmetic rounds  *)
(* as the hardware does (section "Python float").                          *)
(***************************************************************************)
EXTENDS Integers, Sequences, FiniteSets, TLC

VARIABLES
    pc,                  \* position of the call being modelled
    skills,              \* normalize_skills: the argument
    normalized_skills,   \* normalize_skills: the returned list
    renormalized_skills, \* normalize_skills applied to its own result
    experience,          \* _calculate_total_experience: the argument
    exp_index,           \* ... the entry the loop is at
    total_days,          \* ... total_years so far, as a day count
    total_experience,    \* ... the returned value, in tenths of a year
    job_info,            \* calculate_similarity: the job
    candidate,           \* calculate_similarity: the candidate
    vocabulary,          \* self.vectorizer: the vocabulary of its last fit
    detailed_scores,     \* calculate_similarity: the returned scores
    weighted_score,      \* calculate_similarity: the returned overall score
    candidates,          \* rank, search_candidates: the candidates; search: the jobs
    cand_index,          \* search_candidates: the candidate the loop is at
    matching_candidates, \* search_candidates: the matches found so far
    ranked,              \* the list the call returned
    status,              \* how the call ended
    resume_text,         \* _extract_education, _extract_experience: the argument
    call_date,           \* ... datetime.now() as %Y-%m-%d
    text_lines,          \* ... lines
    line_index,          \* ... the line the loop is at
    current,             \* ... current_edu or current_exp
    entries,             \* ... education or experience
    call,                \* a call of a method of ResumeParser or HireAIDemo: its arguments
    result,              \* ... and how it ended
    threads,             \* the calculate_similarity calls in progress on one calculator
    vectorizer,          \* ... and its self.vectorizer
    locals,              \* a call followed step by step: its local variables
    printed,             \* ... and the lines it printed
    store,               \* the candidates table of the database
    calls                \* the calls a run has made, in order

nvars == <<skills, normalized_skills, renormalized_skills>>
evars == <<experience, exp_index, total_days, total_experience>>

svars == <<job_info, candidate, vocabulary, detailed_scores, weighted_score>>

rvars == <<candidates, cand_index, matching_candidates, ranked, status>>

xvars == <<resume_text, call_date, text_lines, line_index, current, entries>>

cvars == <<call, result>>
tvars == <<threads, vectorizer>>
lvars == <<locals, printed>>
bvars == <<store, calls>>

vars == <<pc, nvars, evars, svars, rvars, xvars, cvars, tvars, lvars, bvars>>

\* what a call of one component leaves alone: the other components
not_nvars == <<evars, svars, rvars, xvars, cvars, tvars, lvars, bvars>>
not_evars == <<nvars, svars, rvars, xvars, cvars, tvars, lvars, bvars>>
not_svars == <<nvars, evars, rvars, xvars, cvars, tvars, lvars, bvars>>
not_rvars == <<nvars, evars, svars, xvars, cvars, tvars, lvars, bvars>>
not_xvars == <<nvars, evars, svars, rvars, cvars, tvars, lvars, bvars>>
not_cvars == <<nvars, evars, svars, rvars, xvars, tvars, lvars, bvars>>
not_tvars == <<nvars, evars, svars, rvars, xvars, cvars, lvars, bvars>>
\* ... and a call followed step by step
not_clvars == <<nvars, evars, svars, rvars, xvars, tvars, bvars>>
\* ... and a run whose calls are recorded
not_rbvars == <<nvars, evars, svars, xvars, cvars, tvars, lvars>>

-----------------------------------------------------------------------------
(***************************************************************************)
(* Characters and str methods                                              *)
(***************************************************************************)

\* Every character of the model, in code point order (Python compares str
\* by code point).
CodePoints == "\t\n !#%&()+,-./0123456789:@ABCDEFGHIJKLMNOPQRSTUVWXYZ[]_abcdefghijklmnopqrstuvwxyz|"

UpperCase == "ABCDEFGHIJKLMNOPQRSTUVWXYZ"
LowerCase == "abcdefghijklmnopqrstuvwxyz"
Digits == "0123456789"

CharsOf(s) == {SubSeq(s, i, i) : i \in 1..Len(s)}

IndexIn(s, c) == CHOOSE i \in 1..Len(s) : SubSeq(s, i, i) = c

\* ord(c), up to an order-preserving renumbering
Ord == [c \in CharsOf(CodePoints) |-> IndexIn(CodePoints, c)]

\* str.lower() on one character
LowerChar == [c \in CharsOf(CodePoints) |->
                 IF c \in CharsOf(UpperCase)
                 THEN SubSeq(LowerCase, IndexIn(UpperCase, c), IndexIn(UpperCase, c))
                 ELSE c]

UpperChars == CharsOf(UpperCase)

\* the characters regex \w matches
WordChars == CharsOf(UpperCase) \cup CharsOf(LowerCase) \cup CharsOf(Digits) \cup {"_"}

\* regex \w
IsWordChar(c) == c \in WordChars

\* regex \s and str.isspace()
IsSpaceChar(c) == c \in {" ", "\t", "\n"}

\* str.lower()
RECURSIVE StrLower(_)
StrLower(s) ==
    IF Len(s) = 0 THEN ""
    ELSE IF Len(s) = 1 THEN LowerChar[s]
    ELSE LET half == Len(s) \div 2
         IN  StrLower(SubSeq(s, 1, half)) \o StrLower(SubSeq(s, half + 1, Len(s)))

RECURSIVE LStrip(_)
LStrip(s) == IF s # "" /\ IsSpaceChar(Head(s)) THEN LStrip(Tail(s)) ELSE s

RECURSIVE RStrip(_)
RStrip(s) ==
    IF s # "" /\ IsSpaceChar(SubSeq(s, Len(s), Len(s)))
    THEN RStrip(SubSeq(s, 1, Len(s) - 1))
    ELSE s

\* str.strip()
Strip(s) == RStrip(LStrip(s))

\* a < b for Python str
RECURSIVE StrLess(_, _)
StrLess(a, b) ==
    IF b = "" THEN FALSE
    ELSE IF a = "" THEN TRUE
    ELSE IF Head(a) = Head(b) THEN StrLess(Tail(a), Tail(b))
    ELSE Ord[Head(a)] < Ord[Head(b)]

\* sorted(list(S)) for a set S of str
RECURSIVE SortedList(_)
SortedList(S) ==
    IF S = {} THEN <<>>
    ELSE LET least == CHOOSE x \in S : \A y \in S \ {x} : StrLess(x, y)
         IN  <<least>> \o SortedList(S \ {least})

-----------------------------------------------------------------------------
(***************************************************************************)
(* Skill normalizer: ResumeParser.normalize_skills, hireai/core/parser.py  *)
(***************************************************************************)

PyStr(s) == [t |-> "str", v |-> s]
PyNone == [t |-> "NoneType", v |-> ""]
PyInt(s) == [t |-> "int", v |-> s]

PyList(items) == [t |-> "list", items |-> items]
PyNoneArg == [t |-> "NoneType", items |-> <<>>]

\* self.skill_mappings: the pairs <<key, canonical form>>
skill_mappings ==
    {
        <<"js", "javascript">>,
        <<"typescript", "typescript">>,
        <<"ts", "typescript">>,
        <<"py", "python">>,
        <<"c#", "csharp">>,
        <<"c++", "cpp">>,
        <<"c plus plus", "cpp">>,
        <<"ruby on rails", "ruby">>,
        <<"ror", "ruby">>,
        <<"postgres", "postgresql">>,
        <<"postgresql", "postgresql">>,
        <<"mssql", "sql server">>,
        <<"ms sql", "sql server">>,
        <<"mysql", "mysql">>,
        <<"mongodb", "mongodb">>,
        <<"nosql", "nosql">>,
        <<"aws", "amazon web services">>,
        <<"azure", "microsoft azure">>,
        <<"gcp", "google cloud platform">>,
        <<"google cloud", "google cloud platform">>,
        <<"react.js", "react">>,
        <<"reactjs", "react">>,
        <<"react js", "react">>,
        <<"angular.js", "angular">>,
        <<"angularjs", "angular">>,
        <<"vue.js", "vue">>,
        <<"vuejs", "vue">>,
        <<"node.js", "nodejs">>,
        <<"node js", "nodejs">>,
        <<"express.js", "express">>,
        <<"expressjs", "express">>,
        <<"ml", "machine learning">>,
        <<"ai", "artificial intelligence">>,
        <<"deep learning", "deep learning">>,
        <<"dl", "deep learning">>,
        <<"nlp", "natural language processing">>,
        <<"computer vision", "computer vision">>,
        <<"cv", "computer vision">>,
        <<"ci/cd", "continuous integration">>,
        <<"cicd", "continuous integration">>,
        <<"docker", "docker">>,
        <<"kubernetes", "kubernetes">>,
        <<"k8s", "kubernetes">>,
        <<"agile", "agile methodology">>,
        <<"scrum", "scrum methodology">>,
        <<"waterfall", "waterfall methodology">>,
        <<"devops", "devops">>,
        <<"git", "git">>,
        <<"github", "git">>,
        <<"gitlab", "git">>
    }

SkillKeys == {p[1] : p \in skill_mappings}

\* a table in which a canonical form is itself an alias of another form
MappingGet_Chained(part) ==
    IF part = "git" THEN "version control"
    ELSE IF part \in SkillKeys
         THEN (CHOOSE p \in skill_mappings : p[1] = part)[2]
         ELSE part

\* self.skill_mappings.get(part, part)
MappingGet(part) ==
    IF part \in SkillKeys
    THEN (CHOOSE p \in skill_mappings : p[1] = part)[2]
    ELSE part

\* re.sub(r'[^\w\s]', ' ', s)
RECURSIVE SubSpecial(_)
SubSpecial(s) ==
    IF s = "" THEN ""
    ELSE (IF IsWordChar(Head(s)) \/ IsSpaceChar(Head(s)) THEN Head(s) ELSE " ")
         \o SubSpecial(Tail(s))

\* the characters of the pattern [,/&+]
SplitDelimiters == {",", "/", "&", "+"}

\* re.split(r'[,/&+]', s): the pieces between delimiters, empty ones included
RECURSIVE ReSplit(_, _)
ReSplit(s, piece) ==
    IF s = "" THEN <<piece>>
    ELSE IF Head(s) \in SplitDelimiters
         THEN <<piece>> \o ReSplit(Tail(s), "")
         ELSE ReSplit(Tail(s), piece \o Head(s))

\* lines 108-111: lower, replace special characters, split
SkillParts(skill) == ReSplit(SubSpecial(StrLower(skill)), "")

\* only the empty part is skipped
KeepPart_NonEmpty(part) == part # ""

\* line 116, negated: the part is neither empty nor a single character
KeepPart(part) == part # "" /\ Len(part) >= 2

\* line 123
StopTokens == {"and", "or", "with", "using", "via", "through"}

\* lines 113-124 for one part: the set it adds to normalized_skills
NormalizedOfPart(part) ==
    LET stripped == Strip(part)
        normalized == MappingGet(stripped)
    IN  IF KeepPart(stripped) /\ normalized \notin StopTokens
        THEN {normalized}
        ELSE {}

\* lines 104-124 for one element of the list
NormalizedOfSkill(skill) ==
    IF skill.t # "str" THEN {}
    ELSE LET parts == SkillParts(skill.v)
         IN  UNION {NormalizedOfPart(parts[i]) : i \in 1..Len(parts)}

RECURSIVE ReverseSeq(_)
ReverseSeq(s) == IF s = <<>> THEN <<>> ELSE Append(ReverseSeq(Tail(s)), Head(s))

\* the set listed without the ascending sort
SortSkills_Descending(S) == ReverseSeq(SortedList(S))

\* line 127
SortSkills(S) == SortedList(S)

\* normalize_skills(skills)
normalize_skills(arg) ==
    IF arg.t # "list" \/ arg.items = <<>> THEN <<>>
    ELSE SortSkills(UNION {NormalizedOfSkill(arg.items[i]) : i \in 1..Len(arg.items)})

\* a list of str, as an argument
AsArg(list) == PyList([i \in 1..Len(list) |-> PyStr(list[i])])

-----------------------------------------------------------------------------
(***************************************************************************)
(* Arguments of normalize_skills                                           *)
(***************************************************************************)

\* longest list of skills drawn from SkillPool
MaxSkills == 2
\* longest generated raw skill string
MaxStrLen == 3

RECURSIVE StringsUpTo(_, _)
StringsUpTo(alphabet, n) ==
    IF n = 0 THEN {""}
    ELSE LET shorter == StringsUpTo(alphabet, n - 1)
         IN  shorter \cup {s \o c : s \in shorter, c \in alphabet}

RECURSIVE SeqsUpTo(_, _)
SeqsUpTo(S, n) ==
    IF n = 0 THEN {<<>>}
    ELSE LET shorter == SeqsUpTo(S, n - 1)
         IN  shorter \cup {Append(s, x) : s \in shorter, x \in S}

GeneratedAlphabet == {"j", "S", " ", "\t", "/", "+", "_"}

ScenarioSkills == <<"JS", "Node.js", "  ", "AWS/Azure">>

RawSkillStrings ==
    SkillKeys \cup StopTokens
    \cup {ScenarioSkills[i] : i \in 1..Len(ScenarioSkills)}
    \cup {"C++", "C#", "CI/CD", "Vue.js", " Python ", "K8s", "R&D", "a,b", "sql,nosql"}
    \cup StringsUpTo(GeneratedAlphabet, MaxStrLen)

SkillPool ==
    {PyStr("JS"), PyStr("ts"), PyStr("typescript"), PyStr(" Python "), PyStr("AWS/Azure"),
     PyStr("Node.js"), PyStr("and"), PyStr("a"), PyStr("  "), PyNone}

SkillArgs ==
    {PyNoneArg, AsArg(ScenarioSkills)}
    \cup {PyList(<<x>>) : x \in {PyStr(s) : s \in RawSkillStrings} \cup {PyNone, PyInt("7")}}
    \cup {PyList(l) : l \in SeqsUpTo(SkillPool, MaxSkills)}

NormalizeIdle ==
    /\ skills = PyNoneArg
    /\ normalized_skills = <<>>
    /\ renormalized_skills = <<>>

NormalizeInit ==
    /\ skills \in SkillArgs
    /\ normalized_skills = <<>>
    /\ renormalized_skills = <<>>

\* one call normalize_skills(skills)
Normalize ==
    /\ pc = "normalize"
    /\ normalized_skills' = normalize_skills(skills)
    /\ pc' = "normalized"
    /\ UNCHANGED <<skills, renormalized_skills, not_nvars>>

\* a second call, on the list the first call returned
NormalizeAgain ==
    /\ pc = "normalized"
    /\ renormalized_skills' = normalize_skills(AsArg(normalized_skills))
    /\ pc' = "renormalized"
    /\ UNCHANGED <<skills, normalized_skills, not_nvars>>

-----------------------------------------------------------------------------
(***************************************************************************)
(* Properties of the skill normalizer                                      *)
(***************************************************************************)

\* a precedes b in lexicographic code point order: they agree before some
\* position k, where a has ended or holds the smaller character
LexLess(a, b) ==
    \E k \in 1..Len(b) :
        /\ k <= Len(a) + 1
        /\ SubSeq(a, 1, k - 1) = SubSeq(b, 1, k - 1)
        /\ \/ k = Len(a) + 1
           \/ Ord[SubSeq(a, k, k)] < Ord[SubSeq(b, k, k)]

\* C1: normalize_skills is idempotent: normalizing the list it returned
\* returns the same list.
C1_Idempotent ==
    pc = "renormalized" => renormalized_skills = normalized_skills

\* a call whose result differs from its argument, normalized a second time
C1_Witness ==
    /\ pc = "renormalized"
    /\ skills = PyList(<<PyStr("ts"), PyStr("JS")>>)
    /\ normalized_skills = <<"javascript", "typescript">>

\* C2: the returned list is in strictly ascending lexicographic order
\* (hence without duplicates), for every argument: None, empty, with None
\* or non-string elements.
C2_StrictlyAscending ==
    pc = "normalized" =>
        \A i \in 1..(Len(normalized_skills) - 1) :
            LexLess(normalized_skills[i], normalized_skills[i + 1])

\* two aliases of one skill after a later one, and a None element
C2_Witness ==
    /\ pc = "normalized"
    /\ \E l \in SeqsUpTo(SkillPool, MaxSkills) :
          /\ skills = PyList(l)
          /\ \E i, j \in 1..Len(l) : i < j /\ l[i] = PyStr("typescript") /\ l[j] = PyStr("JS")
    /\ normalized_skills = <<"javascript", "typescript">>

C2_WitnessNone ==
    /\ pc = "normalized"
    /\ skills = PyList(<<PyNone, PyStr("ts")>>)
    /\ normalized_skills = <<"typescript">>

\* C3: the raw list ["JS", "Node.js", "  ", "AWS/Azure"] normalizes to
\* ["amazon web services", "javascript", "microsoft azure", "nodejs"]:
\* each raw skill is split on , / & + and each part goes through the table.
C3_Scenario ==
    (pc = "normalized" /\ skills = AsArg(ScenarioSkills)) =>
        normalized_skills =
            <<"amazon web services", "javascript", "microsoft azure", "nodejs">>

\* a clean token: lower-case word characters only, at least two of them
IsCleanToken(s) ==
    /\ Len(s) >= 2
    /\ \A i \in 1..Len(s) :
          LET c == SubSeq(s, i, i) IN IsWordChar(c) /\ c \notin UpperChars

\* C4: for every key k of the alias table normalize_skills([k]) is
\* [skill_mappings[k]], also for the keys holding . # + or /; a token that
\* is no key passes through unchanged.
C4_EveryKeyMaps ==
    pc = "normalized" =>
        /\ \A p \in skill_mappings :
              skills = AsArg(<<p[1]>>) => normalized_skills = <<p[2]>>
        /\ \A s \in RawSkillStrings :
              (skills = AsArg(<<s>>) /\ IsCleanToken(s)
                 /\ s \notin SkillKeys /\ s \notin {"and", "or", "with", "using", "via", "through"})
              => normalized_skills = <<s>>

\* C5: every returned element has length >= 2, no leading or trailing
\* whitespace, and is no stop-token.
C5_ElementsWellFormed ==
    pc \in {"normalized", "renormalized"} =>
        \A i \in 1..Len(normalized_skills) :
            LET e == normalized_skills[i]
            IN  /\ Len(e) >= 2
                /\ ~IsSpaceChar(SubSeq(e, 1, 1))
                /\ ~IsSpaceChar(SubSeq(e, Len(e), Len(e)))
                /\ e \notin {"and", "or", "with", "using", "via", "through"}

\* a padded skill is kept, trimmed, and a stop-token beside it is dropped
C5_Witness ==
    /\ pc = "normalized"
    /\ skills = PyList(<<PyStr(" Python "), PyStr("and")>>)
    /\ normalized_skills = <<"python">>

-----------------------------------------------------------------------------
(***************************************************************************)
(* Experience aggregator: ResumeParser._calculate_total_experience,        *)
(* Backup/hireai/core/resume_parser.py                                     *)
(***************************************************************************)

\* a key the entry does not hold: exp.get(key) is None
PyAbsent == [t |-> "absent", v |-> ""]

\* bool(x) of a value
Truthy(x) == (x.t = "str" /\ x.v # "") \/ x.t = "int"

DigitValue(c) == IndexIn(Digits, c) - 1

DigitChars == CharsOf(Digits)

IsDigits(s) == s # "" /\ \A i \in 1..Len(s) : SubSeq(s, i, i) \in DigitChars

RECURSIVE ToNumber(_)
ToNumber(s) ==
    IF s = "" THEN 0
    ELSE 10 * ToNumber(SubSeq(s, 1, Len(s) - 1)) + DigitValue(SubSeq(s, Len(s), Len(s)))

\* the fields of s between '-' characters
RECURSIVE DashFields(_, _)
DashFields(s, field) ==
    IF s = "" THEN <<field>>
    ELSE IF Head(s) = "-"
         THEN <<field>> \o DashFields(Tail(s), "")
         ELSE DashFields(Tail(s), field \o Head(s))

\* datetime: _is_leap, _days_in_month, _days_before_year, _days_before_month
IsLeap(y) == y % 4 = 0 /\ (y % 100 # 0 \/ y % 400 = 0)

DaysInMonth(y, m) ==
    IF m = 2 THEN (IF IsLeap(y) THEN 29 ELSE 28)
    ELSE IF m \in {4, 6, 9, 11} THEN 30 ELSE 31

DaysBeforeYear(y) ==
    (y - 1) * 365 + ((y - 1) \div 4) - ((y - 1) \div 100) + ((y - 1) \div 400)

RECURSIVE DaysBeforeMonth(_, _)
DaysBeforeMonth(y, m) ==
    IF m = 1 THEN 0 ELSE DaysBeforeMonth(y, m - 1) + DaysInMonth(y, m - 1)

\* date.toordinal()
Ordinal(y, m, d) == DaysBeforeYear(y) + DaysBeforeMonth(y, m) + d

\* the str matches %Y-%m-%d: four digits, a month 1..12 and a day 1..31
\* written with one or two digits
MatchesFormat(s) ==
    LET f == DashFields(s, "")
    IN  /\ Len(f) = 3
        /\ Len(f[1]) = 4 /\ IsDigits(f[1])
        /\ Len(f[2]) \in {1, 2} /\ IsDigits(f[2]) /\ ToNumber(f[2]) \in 1..12
        /\ Len(f[3]) \in {1, 2} /\ IsDigits(f[3]) /\ ToNumber(f[3]) \in 1..31

\* datetime.strptime(x, "%Y-%m-%d"): the exception raised, or the date's
\* ordinal
Strptime(x) ==
    IF x.t # "str" THEN [exc |-> "TypeError", ord |-> 0]
    ELSE IF ~MatchesFormat(x.v) THEN [exc |-> "ValueError", ord |-> 0]
    ELSE LET f == DashFields(x.v, "")
             y == ToNumber(f[1])
             m == ToNumber(f[2])
             d == ToNumber(f[3])
         IN  IF y < 1 \/ d > DaysInMonth(y, m)
             THEN [exc |-> "ValueError", ord |-> 0]
             ELSE [exc |-> "none", ord |-> Ordinal(y, m, d)]

\* a handler for the parse error only
CaughtExceptions_ValueErrorOnly == {"ValueError"}

\* line 502: except (ValueError, TypeError)
CaughtExceptions == {"ValueError", "TypeError"}

\* 365.25 days, times four
FourYears == 1461

\* round(total_years, 1) of total_years = days / 365.25, in tenths of a year
\* (no day count falls on a rounding tie: 80 * days is even, 1461 is odd)
Round1(days) == (80 * days + FourYears) \div (2 * FourYears)

\* line 496
BothDatesGiven(exp) == Truthy(exp.start_date) /\ Truthy(exp.end_date)

Entry(start, end) == [start_date |-> start, end_date |-> end]

\* longest list of experience entries
MaxEntries == 3

EntryPool ==
    { Entry(PyStr("2019-01-01"), PyStr("2020-12-31")),
      Entry(PyStr("2020-01-01"), PyStr("2020-12-31")),
      Entry(PyStr("2020-01-01"), PyStr("2020-02-29")),
      Entry(PyStr("2020-01-01"), PyStr("2015-12-31")),
      Entry(PyStr("2015-1-5"), PyStr("2019-12-31")),
      Entry(PyStr("2019-01-01"), PyStr("2021-02-29")),
      Entry(PyStr("2019-01-01"), PyStr("2020-13-01")),
      Entry(PyStr("not a date"), PyStr("2020-12-31")),
      Entry(PyStr("0000-01-01"), PyStr("2020-12-31")),
      Entry(PyNone, PyStr("2020-12-31")),
      Entry(PyStr(""), PyStr("2020-12-31")),
      Entry(PyStr("2019-01-01"), PyAbsent),
      Entry(PyStr("2019-01-01"), PyInt("7")) }

ExperienceIdle ==
    /\ experience = <<>>
    /\ exp_index = 0
    /\ total_days = 0
    /\ total_experience = 0

ExperienceInit ==
    /\ experience \in SeqsUpTo(EntryPool, MaxEntries)
    /\ exp_index = 1
    /\ total_days = 0
    /\ total_experience = 0

\* lines 495-503: one iteration of the loop
TotalStep ==
    /\ pc = "total:loop"
    /\ exp_index <= Len(experience)
    /\ LET exp == experience[exp_index]
           start == Strptime(exp.start_date)
           end == Strptime(exp.end_date)
           raised == IF start.exc # "none" THEN start.exc ELSE end.exc
       IN  IF ~BothDatesGiven(exp)
           THEN /\ pc' = pc
                /\ exp_index' = exp_index + 1
                /\ total_days' = total_days
           ELSE IF raised = "none"
           THEN /\ pc' = pc
                /\ exp_index' = exp_index + 1
                /\ total_days' = total_days + (end.ord - start.ord)
           ELSE IF raised \in CaughtExceptions
           THEN /\ pc' = pc
                /\ exp_index' = exp_index + 1
                /\ total_days' = total_days
           ELSE /\ pc' = "total:raised"
                /\ exp_index' = exp_index
                /\ total_days' = total_days
    /\ UNCHANGED <<experience, total_experience, not_evars>>

\* line 505
TotalReturn ==
    /\ pc = "total:loop"
    /\ exp_index > Len(experience)
    /\ total_experience' = Round1(total_days)
    /\ pc' = "total:done"
    /\ UNCHANGED <<experience, exp_index, total_days, not_evars>>

-----------------------------------------------------------------------------
(***************************************************************************)
(* Properties of the experience aggregator                                 *)
(***************************************************************************)

Parses(x) == Strptime(x).exc = "none"

\* the entries both of whose dates parse
Counted == {i \in 1..Len(experience) :
               Parses(experience[i].start_date) /\ Parses(experience[i].end_date)}

DaysOf(i) == Strptime(experience[i].end_date).ord - Strptime(experience[i].start_date).ord

RECURSIVE SumDays(_)
SumDays(I) ==
    IF I = {} THEN 0
    ELSE LET i == CHOOSE j \in I : TRUE IN DaysOf(i) + SumDays(I \ {i})

Abs(n) == IF n < 0 THEN -n ELSE n

\* the tenth of a year nearest to days / 365.25
NearestTenth(days) ==
    CHOOSE t \in -(Abs(days) + 1)..(Abs(days) + 1) :
        2 * Abs(FourYears * t - 40 * days) <= FourYears

\* C6: when both dates of every entry parse as calendar dates, the returned
\* total is >= 0.
C6_TotalNonNegative ==
    (pc = "total:done" /\ Counted = 1..Len(experience)) => total_experience >= 0

\* C7: the call never raises and returns the sum, over exactly the entries
\* whose two dates parse, of (end - start) days / 365.25, rounded to one
\* decimal; overlapping entries each count in full.
C7_RoundedSumOfParsed ==
    /\ pc # "total:raised"
    /\ pc = "total:done" => total_experience = NearestTenth(SumDays(Counted))

\* an unparsable entry between two overlapping ones: 730 + 365 days
C7_Witness ==
    /\ pc = "total:done"
    /\ experience = << Entry(PyStr("2019-01-01"), PyStr("2020-12-31")),
                       Entry(PyStr("2019-01-01"), PyInt("7")),
                       Entry(PyStr("2020-01-01"), PyStr("2020-12-31")) >>
    /\ total_experience = 30

-----------------------------------------------------------------------------
(***************************************************************************)
(* Python float                                                            *)
(*                                                                         *)
(* A float is m * 2^e with a significand m of MantissaBits bits, or zero.  *)
(* Every operation rounds its exact result to the nearest float, ties to   *)
(* even, as IEEE 754 arithmetic does; binary64 has 53 significand bits.    *)
(* The values of the model stay far from the ends of the exponent range,   *)
(* so e is an unbounded integer.                                           *)
(***************************************************************************)

\* bits of a significand
MantissaBits == 14

Pow2(k) == 2^k

\* the highest set bit of n among the eight bits above bit low
HighBitAbove(n, low) ==
    CHOOSE k \in (low + 1)..(low + 8) : Pow2(k - 1) <= n /\ (k = 31 \/ n < Pow2(k))

\* int.bit_length() of n, for 0 < n < 2^31: the byte of the highest set
\* bit, then the bit
BitLength(n) ==
    HighBitAbove(n, CHOOSE b \in {0, 8, 16, 24} : n >= Pow2(b) /\ (b = 24 \/ n < Pow2(b + 8)))

FZero == [m |-> 0, e |-> 0]

\* the float m * 2^e of a rounded significand, which a carry may have
\* made 2^MantissaBits
Carried(m, e) ==
    IF m = Pow2(MantissaBits) THEN [m |-> Pow2(MantissaBits - 1), e |-> e + 1]
    ELSE [m |-> m, e |-> e]

\* the integer nearest to q + (r + s) / (2 * half), ties to even, for
\* 0 <= s < 1 with s > 0 iff sticky
RoundNearest(q, r, half, sticky) ==
    IF r > half \/ (r = half /\ (sticky \/ q % 2 = 1)) THEN q + 1 ELSE q

\* (n + s) * 2^e rounded to a significand that ends shift bits above the
\* lowest bit of n
RoundAway(n, e, sticky, shift) ==
    Carried(RoundNearest(n \div Pow2(shift), n % Pow2(shift), Pow2(shift - 1), sticky),
            e + shift)

\* (n + s) * 2^e rounded, for n of bits bits
RoundBits(n, e, sticky, bits) ==
    IF bits <= MantissaBits
    THEN [m |-> n * Pow2(MantissaBits - bits), e |-> e - (MantissaBits - bits)]
    ELSE RoundAway(n, e, sticky, bits - MantissaBits)

\* the float nearest to (n + s) * 2^e, for an integer n > 0 and 0 <= s < 1
\* with s > 0 iff sticky; n holds two bits more than a significand whenever
\* sticky
RoundToFloat(n, e, sticky) == RoundBits(n, e, sticky, BitLength(n))

\* float(n) for an int n >= 0
FromInt(n) == IF n = 0 THEN FZero ELSE RoundToFloat(n, 0, FALSE)

\* a < b, for floats >= 0
FLess(a, b) ==
    IF b.m = 0 THEN FALSE
    ELSE IF a.m = 0 THEN TRUE
    ELSE a.e < b.e \/ (a.e = b.e /\ a.m < b.m)

\* a <= b
FLeq(a, b) == a = b \/ FLess(a, b)

\* a * b
FMul(a, b) ==
    IF a.m = 0 \/ b.m = 0 THEN FZero
    ELSE RoundToFloat(a.m * b.m, a.e + b.e, FALSE)

\* x + y for floats > 0 with x.e - y.e = d >= 0: the significand of y is
\* shifted under that of x, two guard bits and a sticky bit kept
AddAligned(x, y, d) ==
    IF d > MantissaBits + 1 THEN x
    ELSE IF d <= 2 THEN RoundToFloat(x.m * Pow2(d) + y.m, y.e, FALSE)
    ELSE RoundToFloat(4 * x.m + y.m \div Pow2(d - 2), x.e - 2, y.m % Pow2(d - 2) # 0)

\* a + b, for floats >= 0
FAdd(a, b) ==
    IF a.m = 0 THEN b
    ELSE IF b.m = 0 THEN a
    ELSE IF a.e >= b.e THEN AddAligned(a, b, a.e - b.e)
    ELSE AddAligned(b, a, b.e - a.e)

\* quotient and remainder of (q1 * d + r1) * 2^k by d
DivLow(q1, r1, d, k) == [q |-> q1 * Pow2(k) + (r1 * Pow2(k)) \div d, r |-> (r1 * Pow2(k)) % d]

\* quotient and remainder of n * 2^k by d
DivHigh(n, d, k) == DivLow(n \div d, n % d, d, k)

\* quotient and remainder of n * 2^k by d; the shift is taken in two steps
\* so that no intermediate value outgrows an int
DivShift(n, d, k) == DivHigh(n * Pow2(k \div 2), d, k - k \div 2)

\* the float of (h.q + h.r / d) * 2^e
RoundQuotient(h, e) == RoundToFloat(h.q, e, h.r # 0)

\* a / b, for b > 0
FDiv(a, b) ==
    IF a.m = 0 THEN FZero
    ELSE RoundQuotient(DivShift(a.m, b.m, MantissaBits + 2), a.e - b.e - (MantissaBits + 2))

\* Newton's iteration for the integer square root of n from a guess x that
\* is not below it
RECURSIVE ISqrtFrom(_, _)
ISqrtFrom(n, x) ==
    IF (x + n \div x) \div 2 >= x THEN x ELSE ISqrtFrom(n, (x + n \div x) \div 2)

\* largest r with r * r <= n
ISqrt(n) == IF n = 0 THEN 0 ELSE ISqrtFrom(n, Pow2((BitLength(n) + 1) \div 2))

\* sqrt takes the integer square root of the significand shifted left by
\* 2 * (SqrtShiftHigh + SqrtShiftLow) bits, which has two bits more than a
\* significand: the root after the first shift fits an int, the last
\* SqrtShiftLow bits are found from its remainder
SqrtShiftHigh == (30 - (MantissaBits + 1)) \div 2

SqrtShiftLow == (MantissaBits + 1) \div 2 + 2 - SqrtShiftHigh

\* n * 2^(2 * SqrtShiftLow) - (r * 2^SqrtShiftLow + d)^2, for rem = n - r * r
Excess(rem, r, d) ==
    Pow2(2 * SqrtShiftLow) * rem - (Pow2(SqrtShiftLow + 1) * r * d + d * d)

\* the last bits of the root
LowBits(rem, r) ==
    CHOOSE d \in 0..(Pow2(SqrtShiftLow) - 1) :
        Excess(rem, r, d) >= 0 /\ (d = Pow2(SqrtShiftLow) - 1 \/ Excess(rem, r, d + 1) < 0)

SqrtRounded(rem, r, d, e) ==
    RoundToFloat(Pow2(SqrtShiftLow) * r + d, e, Excess(rem, r, d) # 0)

SqrtRefined(rem, r, e) == SqrtRounded(rem, r, LowBits(rem, r), e)

SqrtFromRoot(n, r, e) == SqrtRefined(n - r * r, r, e)

SqrtShifted(n, e) == SqrtFromRoot(n, ISqrt(n), e)

\* sqrt(m * 2^e) for an even e
SqrtEven(m, e) ==
    SqrtShifted(m * Pow2(2 * SqrtShiftHigh), e \div 2 - (SqrtShiftHigh + SqrtShiftLow))

\* sqrt(a)
FSqrt(a) ==
    IF a.m = 0 THEN FZero
    ELSE IF a.e % 2 = 1 THEN SqrtEven(2 * a.m, a.e - 1)
    ELSE SqrtEven(a.m, a.e)

\* the float of the literal n/10
Tenths(n) == FDiv(FromInt(n), FromInt(10))

FOne == FromInt(1)

-----------------------------------------------------------------------------
(***************************************************************************)
(* Similarity engine: SimilarityCalculator (method "tfidf"),               *)
(* hireai/core/similarity.py                                               *)
(***************************************************************************)

\* a key of the dict with its value, or a key the dict does not hold
Present(v) == [present |-> TRUE, v |-> v]
AbsentList == [present |-> FALSE, v |-> <<>>]
AbsentStr == [present |-> FALSE, v |-> ""]

\* data.get(key, default)
DictGet(field) == field.v

\* ' '.join(parts)
RECURSIVE JoinSpace(_)
JoinSpace(parts) ==
    IF parts = <<>> THEN ""
    ELSE IF Len(parts) = 1 THEN parts[1]
    ELSE parts[1] \o " " \o JoinSpace(Tail(parts))

\* _prepare_text_for_tfidf(data)
_prepare_text_for_tfidf(data) ==
    JoinSpace((IF data.skills.present THEN data.skills.v ELSE <<>>)
              \o (IF data.location.present THEN <<data.location.v>> ELSE <<>>)
              \o (IF data.experience_level.present THEN <<data.experience_level.v>> ELSE <<>>))

\* position i of s holds a word character
WordAt(s, i) == i >= 1 /\ i <= Len(s) /\ IsWordChar(SubSeq(s, i, i))

\* the last position of the run of word characters that holds position i
RunEnd(s, i) ==
    CHOOSE j \in i..Len(s) : (\A k \in i..j : WordAt(s, k)) /\ ~WordAt(s, j + 1)

\* re.findall(r"\b\w\w+\b", s) from position from on: the maximal runs of
\* two or more word characters, in order
RECURSIVE WordRuns(_, _)
WordRuns(s, from) ==
    LET starts == {i \in from..Len(s) : WordAt(s, i) /\ ~WordAt(s, i - 1)}
    IN  IF starts = {} THEN <<>>
        ELSE LET first == CHOOSE i \in starts : \A k \in starts : i <= k
                 last == RunEnd(s, first)
             IN  (IF last > first THEN <<SubSeq(s, first, last)>> ELSE <<>>)
                    \o WordRuns(s, last + 1)

\* TfidfVectorizer's analyzer: lower-case, then the token pattern
Analyze(text) == WordRuns(StrLower(text), 1)

TermSet(tokens) == {tokens[i] : i \in 1..Len(tokens)}

\* term frequency
Count(term, tokens) == Cardinality({i \in 1..Len(tokens) : tokens[i] = term})

\* ln(3 / 2) + 1 = 1.4054651081..., in units of 2^-28, rounded down: the
\* smoothed idf, ln((1 + n) / (1 + df)) + 1, of a term of one document of
\* two; the idf of a term of both is ln(3 / 3) + 1 = 1
IdfOneDocBits == 377274606

Idf(term, a, b) ==
    IF term \in TermSet(a) /\ term \in TermSet(b) THEN FOne
    ELSE RoundToFloat(IdfOneDocBits, -28, TRUE)

\* the row of document doc in the tf-idf matrix before normalisation; the
\* columns are the terms in sorted order
RECURSIVE TfidfRow(_, _, _, _)
TfidfRow(doc, terms, a, b) ==
    IF terms = <<>> THEN <<>>
    ELSE <<FMul(FromInt(Count(Head(terms), doc)), Idf(Head(terms), a, b))>>
            \o TfidfRow(doc, Tail(terms), a, b)

\* x[1] * y[1] + ... + x[i] * y[i], summed in column order
RECURSIVE FDotUpTo(_, _, _)
FDotUpTo(x, y, i) ==
    IF i = 0 THEN FZero ELSE FAdd(FDotUpTo(x, y, i - 1), FMul(x[i], y[i]))

\* the inner product of two rows
FDot(x, y) == FDotUpTo(x, y, Len(x))

\* every element of the row divided by norm
RECURSIVE DivideRow(_, _)
DivideRow(row, norm) ==
    IF row = <<>> THEN <<>>
    ELSE <<FDiv(Head(row), norm)>> \o DivideRow(Tail(row), norm)

\* sklearn.preprocessing.normalize(row, norm="l2") for a row of that norm:
\* a row whose norm is zero is left as it is
DivideByNorm(row, norm) == IF norm.m = 0 THEN row ELSE DivideRow(row, norm)

L2Normalize(row) == DivideByNorm(row, FSqrt(FDot(row, row)))

\* the columns of the matrix: the vocabulary in sorted order
Terms(a, b) == SortedList(TermSet(a) \cup TermSet(b))

\* cosine_similarity(x, y): both rows normalised, then the inner product
RowCosine(x, y) == FDot(L2Normalize(x), L2Normalize(y))

\* cosine_similarity of the two rows of the matrix with columns terms; the
\* vectorizer has normalised each row already
MatrixCosine(a, b, terms) ==
    RowCosine(L2Normalize(TfidfRow(a, terms, a, b)), L2Normalize(TfidfRow(b, terms, a, b)))

\* cosine_similarity of the two rows of fit_transform([a, b])
CosineSimilarity(a, b) == MatrixCosine(a, b, Terms(a, b))

\* self.vectorizer.fit_transform([text_a, text_b]) on the tokens a and b of
\* the two texts: ValueError on an empty vocabulary, else the fitted
\* vocabulary
Fit(a, b) ==
    IF TermSet(a) \cup TermSet(b) = {} THEN [exc |-> "ValueError", vocabulary |-> {}]
    ELSE [exc |-> "none", vocabulary |-> TermSet(a) \cup TermSet(b)]

\* self.vectorizer after a fit that returned r: a fit that raises leaves
\* the vocabulary of the last fit that did not
Refit(r, fitted) == IF r.exc = "ValueError" THEN fitted ELSE r.vocabulary

\* fit_transform and cosine_similarity under except ValueError, on tokens
TokenSimilarity(a, b) == IF Fit(a, b).exc = "ValueError" THEN FZero ELSE CosineSimilarity(a, b)

\* the three category methods share one body: the guard on empty values,
\* then fit_transform and cosine_similarity under except ValueError.  What
\* the body returns ...
CategorySimilarity(text_a, text_b, either_empty) ==
    IF either_empty THEN FZero ELSE TokenSimilarity(Analyze(text_a), Analyze(text_b))

\* ... and what it leaves in self.vectorizer
CategoryFit(text_a, text_b, either_empty, fitted) ==
    IF either_empty THEN fitted ELSE Refit(Fit(Analyze(text_a), Analyze(text_b)), fitted)

\* a skills list counts as a full match when either list is empty
_calculate_skills_similarity_Vacuous(job_skills, candidate_skills) ==
    IF job_skills = <<>> \/ candidate_skills = <<>> THEN FOne
    ELSE CategorySimilarity(JoinSpace(job_skills), JoinSpace(candidate_skills), FALSE)

_calculate_skills_similarity(job_skills, candidate_skills) ==
    CategorySimilarity(JoinSpace(job_skills), JoinSpace(candidate_skills),
                       job_skills = <<>> \/ candidate_skills = <<>>)

_calculate_location_similarity(job_location, candidate_location) ==
    CategorySimilarity(job_location, candidate_location,
                       job_location = "" \/ candidate_location = "")

_calculate_experience_similarity(job_experience, candidate_experience) ==
    CategorySimilarity(job_experience, candidate_experience,
                       job_experience = "" \/ candidate_experience = "")

\* the detailed_scores dict of _calculate_tfidf_similarity
DetailedScores(job, cand) ==
    [skills |-> _calculate_skills_similarity(DictGet(job.skills), DictGet(cand.skills)),
     location |-> _calculate_location_similarity(DictGet(job.location),
                                                 DictGet(cand.location)),
     experience |-> _calculate_experience_similarity(DictGet(job.experience_level),
                                                     DictGet(cand.experience_level))]

\* self.vectorizer after _calculate_tfidf_similarity: the fit on the full
\* texts (their similarity is computed and not used), then the fits of the
\* three category methods in dict order
FittedVocabulary(job, cand, fitted) ==
    CategoryFit(DictGet(job.experience_level), DictGet(cand.experience_level),
                DictGet(job.experience_level) = "" \/ DictGet(cand.experience_level) = "",
        CategoryFit(DictGet(job.location), DictGet(cand.location),
                    DictGet(job.location) = "" \/ DictGet(cand.location) = "",
            CategoryFit(JoinSpace(DictGet(job.skills)), JoinSpace(DictGet(cand.skills)),
                        DictGet(job.skills) = <<>> \/ DictGet(cand.skills) = <<>>,
                Refit(Fit(Analyze(_prepare_text_for_tfidf(job)),
                          Analyze(_prepare_text_for_tfidf(cand))), fitted))))

\* weights, in tenths
WeightSkills == 6
WeightLocation == 2
WeightExperience == 2

\* sum(score * weights[category] for category, score in
\* detailed_scores.items()): the int 0 plus the products, in dict order
WeightedScore(scores) ==
    FAdd(FAdd(FAdd(FZero, FMul(scores.skills, Tenths(WeightSkills))),
              FMul(scores.location, Tenths(WeightLocation))),
         FMul(scores.experience, Tenths(WeightExperience)))

Profile(s, l, e) == [skills |-> s, location |-> l, experience_level |-> e]

\* longest list of job skills
MaxJobSkills == 2

JobSkillPool == {"python", "sql", "c"}

CandidateSkillLists ==
    {<<>>, <<"python">>, <<"SQL", "python">>, <<"c">>, <<"python", "python">>}

JobInfos ==
    {Profile(s, l, e) :
        s \in {AbsentList} \cup {Present(x) : x \in SeqsUpTo(JobSkillPool, MaxJobSkills)},
        l \in {AbsentStr, Present(""), Present("new york"), Present("-")},
        e \in {AbsentStr, Present("senior")}}

Candidates ==
    {Profile(s, l, e) :
        s \in {AbsentList} \cup {Present(x) : x \in CandidateSkillLists},
        l \in {AbsentStr, Present("York"), Present("new york")},
        e \in {Present(""), Present("senior"), Present("junior")}}

SimilarityIdle ==
    /\ job_info = Profile(AbsentList, AbsentStr, AbsentStr)
    /\ candidate = Profile(AbsentList, AbsentStr, AbsentStr)
    /\ vocabulary = {}
    /\ detailed_scores = [skills |-> FZero, location |-> FZero, experience |-> FZero]
    /\ weighted_score = FZero

\* after SimilarityCalculator("tfidf"): the vectorizer is not fitted
SimilarityInit ==
    /\ job_info \in JobInfos
    /\ candidate \in Candidates
    /\ vocabulary = {}
    /\ detailed_scores = [skills |-> FZero, location |-> FZero, experience |-> FZero]
    /\ weighted_score = FZero

\* calculate_similarity(job_info, candidate) with method "tfidf", that is
\* _calculate_tfidf_similarity(job_info, candidate)
CalculateSimilarity ==
    /\ pc = "similarity"
    /\ detailed_scores' = DetailedScores(job_info, candidate)
    /\ weighted_score' = WeightedScore(detailed_scores')
    /\ vocabulary' = FittedVocabulary(job_info, candidate, vocabulary)
    /\ pc' = "similarity:done"
    /\ UNCHANGED <<job_info, candidate, not_svars>>

-----------------------------------------------------------------------------
(***************************************************************************)
(* Properties of the similarity engine                                     *)
(***************************************************************************)

\* the skill list is absent or empty
NoSkills(data) == ~data.skills.present \/ data.skills.v = <<>>

\* C8: when the job's or the candidate's skill list is empty or absent, the
\* skills score is exactly 0.0 and the overall score is
\* 0.2 * location + 0.2 * experience.
C8_NoSkillsScoresZero ==
    (pc = "similarity:done" /\ (NoSkills(job_info) \/ NoSkills(candidate))) =>
        /\ detailed_scores.skills = FZero
        /\ weighted_score = FAdd(FMul(Tenths(2), detailed_scores.location),
                                 FMul(Tenths(2), detailed_scores.experience))

\* job skills ["python", "sql"] against a candidate without skills, the
\* other two categories matching
C8_Witness ==
    /\ pc = "similarity:done"
    /\ job_info.skills = Present(<<"python", "sql">>)
    /\ candidate.skills = Present(<<>>)
    /\ FLess(FZero, detailed_scores.location)
    /\ FLess(FZero, detailed_scores.experience)
    /\ FLess(FZero, weighted_score)

\* the text of a category is empty: the key is absent or its value empty
NoText(field) == ~field.present \/ field.v = ""

\* 0 <= x <= 1
InUnitRange(x) == FLeq(FZero, x) /\ FLeq(x, FOne)

\* C9: the overall score is 0.6 * skills + 0.2 * location + 0.2 * experience
\* of the returned scores; the overall and the three scores lie in [0, 1];
\* a category empty on either side scores 0.0.
C9_WeightedSumInUnitRange ==
    pc = "similarity:done" =>
        /\ weighted_score =
              FAdd(FAdd(FMul(Tenths(6), detailed_scores.skills),
                        FMul(Tenths(2), detailed_scores.location)),
                   FMul(Tenths(2), detailed_scores.experience))
        /\ InUnitRange(weighted_score)
        /\ InUnitRange(detailed_scores.skills)
        /\ InUnitRange(detailed_scores.location)
        /\ InUnitRange(detailed_scores.experience)
        /\ (NoSkills(job_info) \/ NoSkills(candidate))
              => detailed_scores.skills = FZero
        /\ (NoText(job_info.location) \/ NoText(candidate.location))
              => detailed_scores.location = FZero
        /\ (NoText(job_info.experience_level) \/ NoText(candidate.experience_level))
              => detailed_scores.experience = FZero

-----------------------------------------------------------------------------
(***************************************************************************)
(* Rankers: CandidateRanker.rank (Backup/hireai/core/ranker.py),           *)
(* JobSearch.search (Backup/hireai/core/search.py) and                     *)
(* HireAIDemo.search_candidates (hireai/examples/end_to_end_demo.py)       *)
(*                                                                         *)
(* A candidate or a job is the record [id |-> i] of its position i in the  *)
(* list the call reads.  The scores scikit-learn computes and the replies  *)
(* of the provider are inputs of the calls.                                *)
(***************************************************************************)

MaxCandidates == 3

\* an input item together with its sort key: candidate_copy with its
\* 'score', or {"candidate": ..., "match_analysis": ...} with the
\* overall_score of its match analysis
Scored(item, score) == [id |-> item.id, score |-> score]

\* where a stable ascending sort by key puts x in a sorted list: behind
\* every item whose key is not greater
RECURSIVE InsertByKey(_, _)
InsertByKey(x, sorted) ==
    IF sorted = <<>> THEN <<x>>
    ELSE IF FLess(x.score, Head(sorted).score) THEN <<x>> \o sorted
    ELSE <<Head(sorted)>> \o InsertByKey(x, Tail(sorted))

\* the stable ascending sort by key
RECURSIVE StableSort(_)
StableSort(xs) ==
    IF xs = <<>> THEN <<>>
    ELSE InsertByKey(xs[Len(xs)], StableSort(SubSeq(xs, 1, Len(xs) - 1)))

\* a descending sort that is the ascending one read backwards
ListSort_ReverseAfter(xs, reverse) ==
    IF reverse THEN ReverseSeq(StableSort(xs)) ELSE StableSort(xs)

\* xs.sort(key=..., reverse=reverse): list.sort reverses the list, sorts it
\* stably in ascending order and reverses the result
ListSort(xs, reverse) ==
    IF reverse THEN ReverseSeq(StableSort(ReverseSeq(xs))) ELSE StableSort(xs)

\* values of cosine_similarity(...).flatten()
ScorePool == {FZero, Tenths(3), Tenths(7), FOne}

\* list(zip(xs, similarity_scores)) with the score copied into each item
RECURSIVE ZipScores(_, _)
ZipScores(xs, scores) ==
    IF xs = <<>> THEN <<>>
    ELSE <<Scored(Head(xs), Head(scores))>> \o ZipScores(Tail(xs), Tail(scores))

\* the ids of the two jobs of JobSearch._get_sample_jobs
_get_sample_jobs == <<[id |-> 1], [id |-> 2]>>

\* What the provider does with one match-analysis request: the JSON value of
\* overall_score in its reply (an int n, a float f, NaN, a str, no such
\* key), or "error": the request fails or the reply is not a JSON object.
Reply(t, n, f) == [t |-> t, n |-> n, f |-> f]

Replies ==
    {Reply("int", n, FZero) : n \in {0, 50, 90, 150}}
        \cup {Reply("float", 0, f) : f \in {Tenths(4), Tenths(5), Tenths(9), FromInt(85)}}
        \cup {Reply(t, 0, FZero) : t \in {"nan", "str", "missing", "error"}}

\* a Python value that is a float f, or of another kind t
PyFloat(f) == [t |-> "float", f |-> f]
PyOther(t) == [t |-> t, f |-> FZero]

\* analyze_candidate_match(job_requirements, candidate)["overall_score"],
\* "missing" when the returned dict has no such key
analyze_candidate_match(reply) ==
    IF reply.t = "error" THEN PyFloat(FZero)
    ELSE IF reply.t = "int" THEN PyFloat(FDiv(FromInt(reply.n), FromInt(100)))
    ELSE IF reply.t = "float" THEN PyFloat(reply.f)
    ELSE PyOther(reply.t)

\* match_score["overall_score"] >= 0.5 raises KeyError without the key and
\* TypeError for a str
ThresholdRaises(v) == v.t \in {"missing", "str"}

\* match_score["overall_score"] >= 0.5; False for NaN
AtLeastThreshold(v) == v.t = "float" /\ FLeq(Tenths(5), v.f)

InputLists == {[i \in 1..n |-> [id |-> i]] : n \in 0..MaxCandidates}

RankIdle ==
    /\ candidates = <<>>
    /\ cand_index = 0
    /\ matching_candidates = <<>>
    /\ ranked = <<>>
    /\ status = "none"

RankInit ==
    /\ candidates \in InputLists
    /\ cand_index = 0
    /\ matching_candidates = <<>>
    /\ ranked = <<>>
    /\ status = "none"

\* CandidateRanker.rank(job_description, candidates).  fit_transform raises
\* ValueError when no text has a term, cosine_similarity when there is no
\* candidate row.
Rank ==
    /\ pc = "rank"
    /\ \E raises \in BOOLEAN, similarity_scores \in [1..Len(candidates) -> ScorePool] :
          IF raises \/ candidates = <<>>
          THEN /\ ranked' = ranked
               /\ status' = "raised"
          ELSE /\ ranked' = ListSort(ZipScores(candidates, similarity_scores), TRUE)
               /\ status' = "returned"
    /\ pc' = "rank:done"
    /\ UNCHANGED <<candidates, cand_index, matching_candidates, not_rvars>>

\* JobSearch.search(query, jobs)
Search ==
    /\ pc = "search"
    /\ LET jobs == IF candidates = <<>> THEN _get_sample_jobs ELSE candidates
       IN  \E raises \in BOOLEAN, similarity_scores \in [1..Len(jobs) -> ScorePool] :
              IF raises
              THEN /\ ranked' = ranked
                   /\ status' = "raised"
              ELSE /\ ranked' = ListSort(ZipScores(jobs, similarity_scores), TRUE)
                   /\ status' = "returned"
    /\ pc' = "search:done"
    /\ UNCHANGED <<candidates, cand_index, matching_candidates, not_rvars>>

\* search_candidates(job_description) up to its loop: the store is read
\* (candidates is what it holds) and the job is analysed
SearchCandidates ==
    /\ pc = "search_candidates"
    /\ \E store_raises \in BOOLEAN :
          IF store_raises \/ candidates = <<>>
          THEN /\ status' = "error"
               /\ pc' = "search_candidates:done"
               /\ cand_index' = cand_index
          ELSE /\ status' = status
               /\ pc' = "search_candidates:loop"
               /\ cand_index' = 1
    /\ matching_candidates' = <<>>
    /\ UNCHANGED <<candidates, ranked, not_rvars>>

\* one iteration of the loop of search_candidates
AnalyzeCandidate ==
    /\ pc = "search_candidates:loop"
    /\ cand_index <= Len(candidates)
    /\ \E reply \in Replies :
          LET overall_score == analyze_candidate_match(reply)
          IN  IF ThresholdRaises(overall_score)
              THEN /\ status' = "error"
                   /\ pc' = "search_candidates:done"
                   /\ UNCHANGED <<cand_index, matching_candidates>>
              ELSE /\ matching_candidates' =
                         IF AtLeastThreshold(overall_score)
                         THEN Append(matching_candidates,
                                     Scored(candidates[cand_index], overall_score.f))
                         ELSE matching_candidates
                   /\ cand_index' = cand_index + 1
                   /\ UNCHANGED <<pc, status>>
    /\ UNCHANGED <<candidates, ranked, not_rvars>>

\* search_candidates after its loop: the sort and the success result
SearchCandidatesReturn ==
    /\ pc = "search_candidates:loop"
    /\ cand_index > Len(candidates)
    /\ ranked' = ListSort(matching_candidates, TRUE)
    /\ status' = "success"
    /\ pc' = "search_candidates:done"
    /\ UNCHANGED <<candidates, cand_index, matching_candidates, not_rvars>>

-----------------------------------------------------------------------------
(***************************************************************************)
(* Properties of the rankers                                               *)
(***************************************************************************)

\* the call returned a ranked list
ReturnedRanking == status \in {"returned", "success"}

\* two candidates of the ranked list have the same score
HasTie == \E i, j \in 1..Len(ranked) : i < j /\ ranked[i].score = ranked[j].score

\* the ranked list is not in input order
Reordered == \E i, j \in 1..Len(ranked) : i < j /\ ranked[i].id > ranked[j].id

\* C10: the list returned by rank, by search and as matching_candidates of
\* search_candidates is in non-increasing order of score, and candidates of equal
\* score are in the order they had in the input.
C10_DescendingStable ==
    ReturnedRanking =>
        \A i, j \in 1..Len(ranked) : i < j =>
            /\ ~FLess(ranked[i].score, ranked[j].score)
            /\ ranked[i].score = ranked[j].score => ranked[i].id < ranked[j].id

C10_Witness == pc = "search_candidates:done" /\ ReturnedRanking /\ HasTie /\ Reordered

\* C19: the overall_score of every match analysis analyze_candidate_match
\* returns lies in [0,1], whatever value the provider gave for it, so every
\* score that search_candidates compared with the threshold 0.5, kept and
\* sorts by lies in [0,1].
C19_OverallScoreInUnitRange ==
    \A i \in 1..Len(matching_candidates) : InUnitRange(matching_candidates[i].score)

-----------------------------------------------------------------------------
(***************************************************************************)
(* Python re                                                               *)
(*                                                                         *)
(* A pattern is a record: a character set, a literal, \b, a concatenation, *)
(* an alternation or a greedy repetition.  The matcher is the backtracking *)
(* one of re: Ends lists the positions at which a match that starts at     *)
(* position i can end, most preferred first.                               *)
(***************************************************************************)

Re(k, chars, word, parts, min, max) ==
    [k |-> k, chars |-> chars, word |-> word, parts |-> parts, min |-> min, max |-> max]

\* [...]: one character of the set
ReSet(chars) == Re("set", chars, "", <<>>, 0, 0)

\* the characters of word, one after the other
ReLit(word) == Re("lit", {}, word, <<>>, 0, 0)

\* \b
ReWordBoundary == Re("wb", {}, "", <<>>, 0, 0)

\* r1 r2 ...
ReCat(parts) == Re("cat", {}, "", parts, 0, 0)

\* r1 | r2 | ...
ReAlt(parts) == Re("alt", {}, "", parts, 0, 0)

\* r{min,max}, greedy; max = -1 for no upper limit
ReRep(r, min, max) == Re("rep", {}, "", <<r>>, min, max)

\* r?, r*, r+
ReOpt(r) == ReRep(r, 0, 1)
ReStar(r) == ReRep(r, 0, -1)
RePlus(r) == ReRep(r, 1, -1)

\* \d, \w, \s
ReDigit == ReSet(CharsOf(Digits))
ReWord == ReSet(WordChars)
ReSpace == ReSet({" ", "\t", "\n"})

\* position i of s holds a word character
WordCharAt(s, i) == i >= 1 /\ i <= Len(s) /\ IsWordChar(SubSeq(s, i, i))

\* the positions of ends that are behind position i
RECURSIVE Advancing(_, _)
Advancing(ends, i) ==
    IF ends = <<>> THEN <<>>
    ELSE (IF Head(ends) > i THEN <<Head(ends)>> ELSE <<>>) \o Advancing(Tail(ends), i)

\* the first position from i on that holds no character of chars
RunStop(s, i, chars) ==
    CHOOSE j \in i..(Len(s) + 1) :
        /\ j = Len(s) + 1 \/ SubSeq(s, j, j) \notin chars
        /\ \A k \in i..(j - 1) : SubSeq(s, k, k) \in chars

\* how far at most max characters of a run that stops at stop reach from i
Farthest(i, max, stop) == IF max >= 0 /\ i + max < stop THEN i + max ELSE stop

\* the ends of a repetition of a character class from i: the longest
\* first, down to min characters
SetRepEnds(i, min, most) ==
    IF most < i + min THEN <<>> ELSE [k \in 1..(most - i - min + 1) |-> most + 1 - k]

RECURSIVE Ends(_, _, _)
RECURSIVE EndsFromAll(_, _, _)
RECURSIVE CatEnds(_, _, _)
RECURSIVE AltEnds(_, _, _)
RECURSIVE RepEnds(_, _, _, _, _)
RECURSIVE RepEndsFromAll(_, _, _, _, _)

\* where a match of re that starts at position i of s can end (the
\* position behind its last character), in the order the matcher tries
Ends(re, s, i) ==
    CASE re.k = "set" ->
            IF i <= Len(s) /\ SubSeq(s, i, i) \in re.chars THEN <<i + 1>> ELSE <<>>
      [] re.k = "lit" ->
            IF i + Len(re.word) - 1 <= Len(s) /\ SubSeq(s, i, i + Len(re.word) - 1) = re.word
            THEN <<i + Len(re.word)>> ELSE <<>>
      [] re.k = "wb" ->
            IF WordCharAt(s, i - 1) # WordCharAt(s, i) THEN <<i>> ELSE <<>>
      [] re.k = "cat" -> CatEnds(re.parts, s, <<i>>)
      [] re.k = "alt" -> AltEnds(re.parts, s, i)
      [] re.k = "rep" ->
            IF re.parts[1].k = "set"
            THEN SetRepEnds(i, re.min, Farthest(i, re.max, RunStop(s, i, re.parts[1].chars)))
            ELSE RepEnds(re.parts[1], re.min, re.max, s, i)

\* the ends of re from each of the positions starts, in order
EndsFromAll(re, s, starts) ==
    IF starts = <<>> THEN <<>>
    ELSE Ends(re, s, Head(starts)) \o EndsFromAll(re, s, Tail(starts))

CatEnds(parts, s, starts) ==
    IF parts = <<>> THEN starts
    ELSE CatEnds(Tail(parts), s, EndsFromAll(Head(parts), s, starts))

AltEnds(parts, s, i) ==
    IF parts = <<>> THEN <<>>
    ELSE Ends(Head(parts), s, i) \o AltEnds(Tail(parts), s, i)

\* greedy: one more r first, then none
RepEnds(r, min, max, s, i) ==
    (IF max = 0 THEN <<>>
     ELSE RepEndsFromAll(r, IF min > 0 THEN min - 1 ELSE 0,
                         IF max > 0 THEN max - 1 ELSE max, s, Advancing(Ends(r, s, i), i)))
        \o (IF min = 0 THEN <<i>> ELSE <<>>)

RepEndsFromAll(r, min, max, s, starts) ==
    IF starts = <<>> THEN <<>>
    ELSE RepEnds(r, min, max, s, Head(starts)) \o RepEndsFromAll(r, min, max, s, Tail(starts))

\* the match at the least of the positions starts
MatchAt(re, s, starts) ==
    [found |-> TRUE,
     start |-> CHOOSE i \in starts : \A j \in starts : i <= j,
     end |-> Head(Ends(re, s, CHOOSE i \in starts : \A j \in starts : i <= j))]

NoMatch == [found |-> FALSE, start |-> 0, end |-> 0]

MatchAmong(re, s, starts) == IF starts = {} THEN NoMatch ELSE MatchAt(re, s, starts)

\* re.search(re, s): the leftmost match, s[start .. end - 1]
ReSearch(re, s) == MatchAmong(re, s, {i \in 1..(Len(s) + 1) : Ends(re, s, i) # <<>>})

\* re.search with flag (?i), for a pattern whose letters are lower-case
ReSearchIgnoreCase(re, s) == ReSearch(re, StrLower(s))

\* match.group(0)
Group0(s, m) == SubSeq(s, m.start, m.end - 1)

-----------------------------------------------------------------------------
(***************************************************************************)
(* Line scanners: ResumeParser._extract_education and _extract_experience, *)
(* Backup/hireai/core/resume_parser.py                                     *)
(*                                                                         *)
(* today is datetime.now().strftime("%Y-%m-%d") at the time of the call.   *)
(***************************************************************************)

\* s.split(sep) for a separator of one character
RECURSIVE SplitOn(_, _)
SplitOn(s, sep) ==
    IF \A i \in 1..Len(s) : SubSeq(s, i, i) # sep THEN <<s>>
    ELSE <<SubSeq(s, 1, (CHOOSE i \in 1..Len(s) :
                            SubSeq(s, i, i) = sep /\ \A j \in 1..(i - 1) : SubSeq(s, j, j) # sep) - 1)>>
            \o SplitOn(SubSeq(s, (CHOOSE i \in 1..Len(s) :
                            SubSeq(s, i, i) = sep /\ \A j \in 1..(i - 1) : SubSeq(s, j, j) # sep) + 1,
                              Len(s)), sep)

\* x\.?y\.? for two letters
Abbreviation(x, y) == ReCat(<<ReLit(x), ReOpt(ReLit(".")), ReLit(y), ReOpt(ReLit("."))>>)

\* (?i)(bachelor|master|phd|b\.?s\.?|m\.?s\.?|b\.?e\.?|m\.?e\.?)
DegreePattern ==
    ReAlt(<<ReLit("bachelor"), ReLit("master"), ReLit("phd"), Abbreviation("b", "s"),
            Abbreviation("m", "s"), Abbreviation("b", "e"), Abbreviation("m", "e")>>)

\* (?i)(university|college|institute)
InstitutionPattern == ReAlt(<<ReLit("university"), ReLit("college"), ReLit("institute")>>)

\* (?i)(computer science|engineering|information technology|it)
FieldPattern ==
    ReAlt(<<ReLit("computer science"), ReLit("engineering"),
            ReLit("information technology"), ReLit("it")>>)

\* (\d{4})\s*-\s* and (\d{4}|\w+), the two parts of the date-range pattern
\* (\d{4})\s*-\s*(\d{4}|\w+)
DateRangeHead == ReCat(<<ReRep(ReDigit, 4, 4), ReStar(ReSpace), ReLit("-"), ReStar(ReSpace)>>)

DateRangeTail == ReAlt(<<ReRep(ReDigit, 4, 4), RePlus(ReWord)>>)

DateRangePattern == ReCat(<<DateRangeHead, DateRangeTail>>)

\* (?i)(gpa|grade point average)[:\s]+ and (\d+\.?\d*), the two parts of the
\* GPA pattern
GpaHead ==
    ReCat(<<ReAlt(<<ReLit("gpa"), ReLit("grade point average")>>),
            RePlus(ReSet({":", " ", "\t", "\n"}))>>)

GpaTail == ReCat(<<RePlus(ReDigit), ReOpt(ReLit(".")), ReStar(ReDigit)>>)

GpaPattern == ReCat(<<GpaHead, GpaTail>>)

\* the first of the positions starts at which re matches
RECURSIVE FirstMatching(_, _, _)
FirstMatching(re, s, starts) ==
    IF Ends(re, s, Head(starts)) # <<>> THEN Head(starts)
    ELSE FirstMatching(re, s, Tail(starts))

\* the last group of a match m of the pattern head tail, where tail is the
\* group
LastGroup(head, tail, s, m) ==
    SubSeq(s, FirstMatching(tail, s, Ends(head, s, m.start)), m.end - 1)

\* x or default
OrElse(x, default) == IF x = "" THEN default ELSE x

\* float(numeral) for a numeral \d+\.?\d* whose digits make a number that a
\* float holds exactly
FloatOfParts(parts) ==
    IF Len(parts) = 1 THEN FromInt(ToNumber(parts[1]))
    ELSE FDiv(FromInt(ToNumber(parts[1] \o parts[2])), FromInt(10^Len(parts[2])))

FloatOfNumeral(numeral) == FloatOfParts(SplitOn(numeral, "."))

\* current_edu is None
NoEducation ==
    [t |-> "NoneType", degree |-> "", field_of_study |-> "", institution |-> "",
     start_date |-> "", end_date |-> "", gpa |-> FZero]

\* the dates of a line from the match m of the date-range pattern
StartDateOf(line, m, today) ==
    IF m.found THEN SubSeq(line, m.start, m.start + 3) \o "-01-01" ELSE today

EndDateOfYear(end_year, today) == IF IsDigits(end_year) THEN end_year \o "-12-31" ELSE today

EndDateOf(line, m, today) ==
    IF m.found THEN EndDateOfYear(LastGroup(DateRangeHead, DateRangeTail, line, m), today)
    ELSE today

GpaOf(lowered, m) ==
    IF m.found THEN FloatOfNumeral(LastGroup(GpaHead, GpaTail, lowered, m)) ELSE FZero

GroupOr(line, m, default) == IF m.found THEN Group0(line, m) ELSE default

\* the current_edu a matching line opens
NewEducation(line, today) ==
    [t |-> "dict",
     degree |-> GroupOr(line, ReSearchIgnoreCase(DegreePattern, line), ""),
     field_of_study |-> GroupOr(line, ReSearchIgnoreCase(FieldPattern, line), "Not specified"),
     institution |-> IF ReSearchIgnoreCase(InstitutionPattern, line).found THEN line ELSE "",
     start_date |-> StartDateOf(line, ReSearch(DateRangePattern, line), today),
     end_date |-> EndDateOf(line, ReSearch(DateRangePattern, line), today),
     gpa |-> GpaOf(StrLower(line), ReSearchIgnoreCase(GpaPattern, line))]

\* any(re.search(pattern, line) for pattern in education_patterns)
IsEducationLine(line) ==
    \/ ReSearchIgnoreCase(DegreePattern, line).found
    \/ ReSearchIgnoreCase(InstitutionPattern, line).found
    \/ ReSearchIgnoreCase(FieldPattern, line).found

\* the entry as it is appended: empty fields take their defaults
CompletedEducation(edu, today) ==
    [edu EXCEPT !.field_of_study = OrElse(@, "Not specified"),
                !.start_date = OrElse(@, today),
                !.end_date = OrElse(@, today)]

\* a closing that appends whatever the fields are
ClosedEducation_Always(education, edu, today) ==
    IF edu.t = "dict" THEN Append(education, CompletedEducation(edu, today)) ELSE education

\* education after current_edu is closed: it is appended if it has a
\* degree and an institution
ClosedEducation(education, edu, today) ==
    IF edu.t = "dict" /\ edu.degree # "" /\ edu.institution # ""
    THEN Append(education, CompletedEducation(edu, today))
    ELSE education

\* what one iteration of the loop of _extract_education makes of
\* current_edu and education
ScanEducationLine(line, edu, education, today) ==
    IF line = "" \/ ~IsEducationLine(line)
    THEN [current |-> edu, entries |-> education]
    ELSE [current |-> NewEducation(line, today),
          entries |-> ClosedEducation(education, edu, today)]

\* the loop of _extract_education from line i on, and the closing of the
\* last entry
RECURSIVE EducationLoop(_, _, _, _, _)
EducationLoop(lines, i, edu, education, today) ==
    IF i > Len(lines) THEN ClosedEducation(education, edu, today)
    ELSE EducationLoop(lines, i + 1,
                       ScanEducationLine(Strip(lines[i]), edu, education, today).current,
                       ScanEducationLine(Strip(lines[i]), edu, education, today).entries,
                       today)

\* _extract_education(text) of a str, called on the date today
_extract_education(text, today) ==
    EducationLoop(SplitOn(text, "\n"), 1, NoEducation, <<>>, today)

\* s holds w
Contains(s, w) == \E i \in 1..(Len(s) - Len(w) + 1) : SubSeq(s, i, i + Len(w) - 1) = w

\* _extract_skills: common_skills
common_skills ==
    <<"python", "java", "javascript", "typescript", "react", "angular", "vue",
      "node.js", "express", "django", "flask", "spring", "aws", "azure", "gcp",
      "docker", "kubernetes", "jenkins", "git", "sql", "nosql", "mongodb",
      "postgresql", "mysql", "redis", "html", "css", "sass", "less", "bootstrap",
      "tailwind", "material-ui", "redux", "graphql", "rest", "api", "microservices",
      "ci/cd", "devops", "agile", "scrum", "jira", "confluence", "linux", "unix">>

FoundIn(text_lower) == SelectSeq(common_skills, LAMBDA skill : Contains(text_lower, skill))

\* _extract_skills(text) of a str
_extract_skills(text) == IF text = "" THEN <<>> ELSE FoundIn(StrLower(text))

\* (?i)(experience|work|employment)
ExperienceWordPattern == ReAlt(<<ReLit("experience"), ReLit("work"), ReLit("employment")>>)

\* (?i)(years?|months?)
DurationPattern ==
    ReAlt(<<ReCat(<<ReLit("year"), ReOpt(ReLit("s"))>>),
            ReCat(<<ReLit("month"), ReOpt(ReLit("s"))>>)>>)

\* (?i)(developer|engineer|architect|consultant|manager)
TitlePattern ==
    ReAlt(<<ReLit("developer"), ReLit("engineer"), ReLit("architect"),
            ReLit("consultant"), ReLit("manager")>>)

\* (?i)(present|current|now)
CurrentPattern == ReAlt(<<ReLit("present"), ReLit("current"), ReLit("now")>>)

\* (?i)(inc\.?|ltd\.?|llc|corp\.?|company)
CompanyPattern ==
    ReAlt(<<ReCat(<<ReLit("inc"), ReOpt(ReLit("."))>>),
            ReCat(<<ReLit("ltd"), ReOpt(ReLit("."))>>),
            ReLit("llc"),
            ReCat(<<ReLit("corp"), ReOpt(ReLit("."))>>),
            ReLit("company")>>)

\* (\d{4})\s*-\s*(present|current|now), re.IGNORECASE
CurrentRangePattern == ReCat(<<DateRangeHead, CurrentPattern>>)

\* current_exp is None
NoExperience ==
    [t |-> "NoneType", title |-> "", company |-> "", start_date |-> "", end_date |-> "",
     description |-> "", skills |-> <<>>]

\* start_date and end_date of a line that is not of a current position
PastDates(line, m, today) ==
    [start |-> StartDateOf(line, m, today), end |-> EndDateOf(line, m, today)]

\* start_date and end_date of a line of a current position
CurrentDates(line, m, today) ==
    [start |-> StartDateOf(line, m, today), end |-> today]

ExperienceDates(line, today) ==
    IF ReSearchIgnoreCase(CurrentPattern, line).found
    THEN CurrentDates(line, ReSearchIgnoreCase(CurrentRangePattern, line), today)
    ELSE PastDates(line, ReSearch(DateRangePattern, line), today)

\* the current_exp a matching line opens
NewExperience(line, today) ==
    [t |-> "dict",
     title |-> GroupOr(line, ReSearchIgnoreCase(TitlePattern, line), ""),
     company |-> IF ReSearchIgnoreCase(CompanyPattern, line).found THEN line ELSE "",
     start_date |-> ExperienceDates(line, today).start,
     end_date |-> ExperienceDates(line, today).end,
     description |-> "No description provided",
     skills |-> _extract_skills(line)]

\* has_experience_info
IsExperienceLine(line) ==
    \/ ReSearchIgnoreCase(ExperienceWordPattern, line).found
    \/ ReSearchIgnoreCase(DurationPattern, line).found
    \/ ReSearchIgnoreCase(TitlePattern, line).found
    \/ ReSearchIgnoreCase(CurrentPattern, line).found

\* the entry as it is appended: empty fields take their defaults
CompletedExperience(exp, today) ==
    [exp EXCEPT !.description = OrElse(@, "No description provided"),
                !.start_date = OrElse(@, today),
                !.end_date = OrElse(@, today)]

\* experience after current_exp is closed: it is appended if it has a title
\* and a company
ClosedExperience(exps, exp, today) ==
    IF exp.t = "dict" /\ exp.title # "" /\ exp.company # ""
    THEN Append(exps, CompletedExperience(exp, today))
    ELSE exps

\* what one iteration of the loop of _extract_experience makes of
\* current_exp and experience
ScanExperienceLine(line, exp, exps, today) ==
    IF line = "" \/ ~IsExperienceLine(line)
    THEN [current |-> exp, entries |-> exps]
    ELSE [current |-> NewExperience(line, today),
          entries |-> ClosedExperience(exps, exp, today)]

\* the loop of _extract_experience from line i on, and the closing of the
\* last entry
RECURSIVE ExperienceLoop(_, _, _, _, _)
ExperienceLoop(lines, i, exp, exps, today) ==
    IF i > Len(lines) THEN ClosedExperience(exps, exp, today)
    ELSE ExperienceLoop(lines, i + 1,
                        ScanExperienceLine(Strip(lines[i]), exp, exps, today).current,
                        ScanExperienceLine(Strip(lines[i]), exp, exps, today).entries,
                        today)

\* _extract_experience(text) of a str, called on the date today
_extract_experience(text, today) ==
    IF text = "" THEN <<>>
    ELSE ExperienceLoop(SplitOn(text, "\n"), 1, NoExperience, <<>>, today)

\* '\n'.join(lines)
RECURSIVE JoinLines(_)
JoinLines(ls) ==
    IF ls = <<>> THEN ""
    ELSE IF Len(ls) = 1 THEN ls[1]
    ELSE ls[1] \o "\n" \o JoinLines(Tail(ls))

\* most lines of a generated text
MaxLines == 3

ScenarioResume ==
    JoinLines(<<"John Smith", "johnsmith@email.com", "555-123-4567", "Python, Django, AWS",
                "Bachelor of Science in Computer Science, MIT, 2015-2019">>)

EducationLinePool ==
    {"", "John Smith", "Python, Django, AWS", "Stanford University",
     "MS, Boston College, 2016 - present, GPA: 3.5", "B.S. Physics 2019-2015"}

EducationTexts ==
    {PyNone, PyStr(ScenarioResume)}
        \cup {PyStr(JoinLines(ls)) : ls \in SeqsUpTo(EducationLinePool, MaxLines)}

\* values of datetime.now().strftime("%Y-%m-%d")
Todays == {"2024-06-15", "2031-01-01"}

ScanIdle ==
    /\ resume_text = PyNone
    /\ call_date = ""
    /\ text_lines = <<>>
    /\ line_index = 0
    /\ current = NoEducation
    /\ entries = <<>>

EducationInit ==
    /\ resume_text \in EducationTexts
    /\ call_date \in Todays
    /\ text_lines = <<>>
    /\ line_index = 0
    /\ current = NoEducation
    /\ entries = <<>>

\* _extract_education(text) up to its loop; None has no split
ExtractEducation ==
    /\ pc = "education"
    /\ IF resume_text.t = "str"
       THEN /\ text_lines' = SplitOn(resume_text.v, "\n")
            /\ pc' = "education:loop"
       ELSE /\ text_lines' = text_lines
            /\ pc' = "education:raised"
    /\ line_index' = 1
    /\ current' = NoEducation
    /\ entries' = <<>>
    /\ UNCHANGED <<resume_text, call_date, not_xvars>>

\* one iteration of the loop of _extract_education
EducationLine ==
    /\ pc = "education:loop"
    /\ line_index <= Len(text_lines)
    /\ current' = ScanEducationLine(Strip(text_lines[line_index]), current, entries, call_date).current
    /\ entries' = ScanEducationLine(Strip(text_lines[line_index]), current, entries, call_date).entries
    /\ line_index' = line_index + 1
    /\ UNCHANGED <<pc, resume_text, call_date, text_lines, not_xvars>>

\* _extract_education after its loop: the last entry is closed
EducationReturn ==
    /\ pc = "education:loop"
    /\ line_index > Len(text_lines)
    /\ entries' = ClosedEducation(entries, current, call_date)
    /\ pc' = "education:done"
    /\ UNCHANGED <<resume_text, call_date, text_lines, line_index, current, not_xvars>>

ExperienceLinePool ==
    {"", "Work history", "Software Engineer at Acme Inc 2020 - 2015",
     "Developer, Initech LLC, 2030 - present", "Python Engineer at Acme Corp, 2018-2021",
     "Manager since 2019"}

ExperienceTexts ==
    {PyNone} \cup {PyStr(JoinLines(ls)) : ls \in SeqsUpTo(ExperienceLinePool, MaxLines)}

ScanExperienceInit ==
    /\ resume_text \in ExperienceTexts
    /\ call_date \in Todays
    /\ text_lines = <<>>
    /\ line_index = 0
    /\ current = NoExperience
    /\ entries = <<>>

\* _extract_experience(text) up to its loop: nothing to scan in None or ""
ExtractExperience ==
    /\ pc = "experience"
    /\ IF resume_text.t = "str" /\ resume_text.v # ""
       THEN /\ text_lines' = SplitOn(resume_text.v, "\n")
            /\ pc' = "experience:loop"
       ELSE /\ text_lines' = text_lines
            /\ pc' = "experience:done"
    /\ line_index' = 1
    /\ current' = NoExperience
    /\ entries' = <<>>
    /\ UNCHANGED <<resume_text, call_date, not_xvars>>

\* one iteration of the loop of _extract_experience
ExperienceLine ==
    /\ pc = "experience:loop"
    /\ line_index <= Len(text_lines)
    /\ current' = ScanExperienceLine(Strip(text_lines[line_index]), current, entries, call_date).current
    /\ entries' = ScanExperienceLine(Strip(text_lines[line_index]), current, entries, call_date).entries
    /\ line_index' = line_index + 1
    /\ UNCHANGED <<pc, resume_text, call_date, text_lines, not_xvars>>

\* _extract_experience after its loop: the last entry is closed
ExperienceReturn ==
    /\ pc = "experience:loop"
    /\ line_index > Len(text_lines)
    /\ entries' = ClosedExperience(entries, current, call_date)
    /\ pc' = "experience:done"
    /\ UNCHANGED <<resume_text, call_date, text_lines, line_index, current, not_xvars>>

-----------------------------------------------------------------------------
(***************************************************************************)
(* Contact extractors: ResumeParser._extract_name, _extract_email and      *)
(* _extract_phone, Backup/hireai/core/resume_parser.py                     *)
(***************************************************************************)

\* s.replace(old, new) for a non-empty old
RECURSIVE Replace(_, _, _)
Replace(s, old, new) ==
    IF Len(s) < Len(old) THEN s
    ELSE IF SubSeq(s, 1, Len(old)) = old
         THEN new \o Replace(SubSeq(s, Len(old) + 1, Len(s)), old, new)
         ELSE SubSeq(s, 1, 1) \o Replace(SubSeq(s, 2, Len(s)), old, new)

\* the characters of s that are in keep, in order
RECURSIVE KeepChars(_, _)
KeepChars(s, keep) ==
    IF s = "" THEN ""
    ELSE (IF SubSeq(s, 1, 1) \in keep THEN SubSeq(s, 1, 1) ELSE "")
            \o KeepChars(SubSeq(s, 2, Len(s)), keep)

Letters == CharsOf(UpperCase) \cup CharsOf(LowerCase)

\* [A-Za-z0-9._%+-]+
EmailLocal == RePlus(ReSet(Letters \cup CharsOf(Digits) \cup {".", "_", "%", "+", "-"}))

\* [A-Za-z0-9.-]+\.[A-Z|a-z]{2,}\b
EmailDomain ==
    ReCat(<<RePlus(ReSet(Letters \cup CharsOf(Digits) \cup {".", "-"})), ReLit("."),
            ReRep(ReSet(Letters \cup {"|"}), 2, -1), ReWordBoundary>>)

\* email_patterns
email_patterns ==
    <<ReCat(<<ReWordBoundary, EmailLocal, ReLit("@"), EmailDomain>>),
      ReCat(<<ReWordBoundary, EmailLocal, ReLit("[at]"), EmailDomain>>),
      ReCat(<<ReWordBoundary, EmailLocal, ReStar(ReSpace), ReLit("@"), ReStar(ReSpace),
              EmailDomain>>)>>

\* the match of the first of the patterns that matches text
RECURSIVE FirstPatternMatch(_, _, _)
FirstPatternMatch(patterns, i, text) ==
    IF i > Len(patterns) THEN NoMatch
    ELSE IF ReSearch(patterns[i], text).found THEN ReSearch(patterns[i], text)
    ELSE FirstPatternMatch(patterns, i + 1, text)

\* email.replace('[at]', '@').replace(' ', '') and lower()
CleanEmail(email) == StrLower(Replace(Replace(email, "[at]", "@"), " ", ""))

EmailOfMatch(text, m) == IF m.found THEN CleanEmail(Group0(text, m)) ELSE "Not provided"

\* _extract_email(text) of a str
_extract_email(text) ==
    IF text = "" THEN "Not provided"
    ELSE EmailOfMatch(text, FirstPatternMatch(email_patterns, 1, text))

\* [-.\s]?
PhoneSeparator == ReOpt(ReSet({"-", ".", " ", "\t", "\n"}))

\* \d{3}[-.\s]?\d{4}\b
PhoneEnd == ReCat(<<ReRep(ReDigit, 3, 3), PhoneSeparator, ReRep(ReDigit, 4, 4), ReWordBoundary>>)

\* phone_patterns
phone_patterns ==
    <<ReCat(<<ReWordBoundary,
              ReOpt(ReCat(<<ReLit("+"), ReRep(ReDigit, 1, 3), PhoneSeparator>>)),
              ReOpt(ReLit("(")), ReRep(ReDigit, 3, 3), ReOpt(ReLit(")")), PhoneSeparator,
              PhoneEnd>>),
      ReCat(<<ReWordBoundary, ReRep(ReDigit, 3, 3), PhoneSeparator, PhoneEnd>>),
      ReCat(<<ReWordBoundary, ReLit("("), ReRep(ReDigit, 3, 3), ReLit(")"), ReStar(ReSpace),
              PhoneEnd>>),
      ReCat(<<ReWordBoundary, ReLit("+"), ReRep(ReDigit, 1, 3), ReStar(ReSpace),
              ReRep(ReDigit, 3, 3), ReStar(ReSpace), ReRep(ReDigit, 3, 3), ReStar(ReSpace),
              ReRep(ReDigit, 4, 4), ReWordBoundary>>)>>

\* re.sub(r'[^\d+]', '', phone)
CleanPhone(phone) == KeepChars(phone, CharsOf(Digits) \cup {"+"})

PhoneOfMatch(text, m) == IF m.found THEN CleanPhone(Group0(text, m)) ELSE "Not provided"

\* _extract_phone(text) of a str
_extract_phone(text) ==
    IF text = "" THEN "Not provided"
    ELSE PhoneOfMatch(text, FirstPatternMatch(phone_patterns, 1, text))

\* s.split(): the runs of non-whitespace characters
RECURSIVE SplitWhitespace(_, _)
SplitWhitespace(s, word) ==
    IF s = "" THEN (IF word = "" THEN <<>> ELSE <<word>>)
    ELSE IF IsSpaceChar(SubSeq(s, 1, 1))
         THEN (IF word = "" THEN <<>> ELSE <<word>>) \o SplitWhitespace(SubSeq(s, 2, Len(s)), "")
         ELSE SplitWhitespace(SubSeq(s, 2, Len(s)), word \o SubSeq(s, 1, 1))

\* len(words) >= 2 and all(word[0].isupper() for word in words[:2])
TwoCapitalized(words) ==
    /\ Len(words) >= 2
    /\ SubSeq(words[1], 1, 1) \in UpperChars
    /\ SubSeq(words[2], 1, 1) \in UpperChars

\* the fallback of _extract_name over lines[:5]
RECURSIVE NameOfLines(_, _)
NameOfLines(lines, i) ==
    IF i > Len(lines) \/ i > 5 THEN "Unknown"
    ELSE IF TwoCapitalized(SplitWhitespace(Strip(lines[i]), ""))
         THEN SplitWhitespace(Strip(lines[i]), "")[1] \o " " \o SplitWhitespace(Strip(lines[i]), "")[2]
         ELSE NameOfLines(lines, i + 1)

\* _extract_name(text) of a str; person is the text of the first PERSON
\* entity that self.nlp finds in it, None if it finds none
_extract_name(text, person) ==
    IF text = "" THEN "Unknown"
    ELSE IF person.t = "str" THEN person.v
    ELSE NameOfLines(SplitOn(text, "\n"), 1)

-----------------------------------------------------------------------------
(***************************************************************************)
(* Calls of the extractors of ResumeParser on one argument                 *)
(***************************************************************************)

\* how a call ends
Returned(v) == [t |-> "return", v |-> v]
Raised(exc) == [t |-> "raise", v |-> exc]
NoResult == [t |-> "none", v |-> ""]

\* not text
NotText(x) == x.t = "NoneType" \/ (x.t = "str" /\ x.v = "")

\* names a PERSON entity may have
PersonPool == {"John Smith", "Jane Doe"}

\* what self.nlp may find in a text: no PERSON entity, or one of its names
Persons(x) ==
    {PyNone} \cup (IF x.t = "str" THEN {PyStr(n) : n \in {p \in PersonPool : Contains(x.v, p)}}
                   ELSE {})

ExtractorNames ==
    {"_extract_name", "_extract_email", "_extract_phone", "_extract_skills",
     "_extract_education", "_extract_experience"}

ExtractorTexts ==
    {PyNone, PyStr(""), PyStr(" "), PyStr("John Smith"), PyStr("jane doe"),
     PyStr("johnsmith@email.com"), PyStr("555-123-4567"), PyStr("Python, Django, AWS"),
     PyStr("MS, Boston College, 2016 - present"),
     PyStr("Developer, Initech LLC, 2030 - present"),
     PyStr("Jane Doe\njd[at]x.io\n(555)123.4567")}

Call(fn, text, person, today) == [fn |-> fn, text |-> text, person |-> person, today |-> today]

CallIdle ==
    /\ call = Call("none", PyNone, PyNone, "")
    /\ result = NoResult

ExtractorInit ==
    /\ call \in {Call(fn, x, p, d) : fn \in ExtractorNames, x \in ExtractorTexts,
                                      p \in PersonPool \cup {""}, d \in Todays}
    /\ call.person \in {""} \cup {p.v : p \in Persons(call.text)}
    /\ result = NoResult

\* the person of a call as the value self.nlp gives
PersonOf(c) == IF c.person = "" THEN PyNone ELSE PyStr(c.person)

\* _extract_name(text): a falsy text is "Unknown", anything else goes to
\* self.nlp
ExtractName ==
    /\ pc = "extractor" /\ call.fn = "_extract_name"
    /\ result' = IF NotText(call.text) THEN Returned("Unknown")
                 ELSE Returned(_extract_name(call.text.v, PersonOf(call)))
    /\ pc' = "extractor:done"
    /\ UNCHANGED <<call, not_cvars>>

\* _extract_email(text)
ExtractEmail ==
    /\ pc = "extractor" /\ call.fn = "_extract_email"
    /\ result' = IF NotText(call.text) THEN Returned("Not provided")
                 ELSE Returned(_extract_email(call.text.v))
    /\ pc' = "extractor:done"
    /\ UNCHANGED <<call, not_cvars>>

\* _extract_phone(text)
ExtractPhone ==
    /\ pc = "extractor" /\ call.fn = "_extract_phone"
    /\ result' = IF NotText(call.text) THEN Returned("Not provided")
                 ELSE Returned(_extract_phone(call.text.v))
    /\ pc' = "extractor:done"
    /\ UNCHANGED <<call, not_cvars>>

\* _extract_skills(text)
ExtractSkills ==
    /\ pc = "extractor" /\ call.fn = "_extract_skills"
    /\ result' = IF NotText(call.text) THEN Returned(<<>>)
                 ELSE Returned(_extract_skills(call.text.v))
    /\ pc' = "extractor:done"
    /\ UNCHANGED <<call, not_cvars>>

\* _extract_education(text) as one step: text.split is its first use of
\* text, and None has no split
ExtractEducationCall ==
    /\ pc = "extractor" /\ call.fn = "_extract_education"
    /\ result' = IF call.text.t # "str" THEN Raised("AttributeError")
                 ELSE Returned(_extract_education(call.text.v, call.today))
    /\ pc' = "extractor:done"
    /\ UNCHANGED <<call, not_cvars>>

\* _extract_experience(text) as one step
ExtractExperienceCall ==
    /\ pc = "extractor" /\ call.fn = "_extract_experience"
    /\ result' = IF NotText(call.text) THEN Returned(<<>>)
                 ELSE Returned(_extract_experience(call.text.v, call.today))
    /\ pc' = "extractor:done"
    /\ UNCHANGED <<call, not_cvars>>

-----------------------------------------------------------------------------
(***************************************************************************)
(* ResumeParser._read_file and parse_resume,                               *)
(* Backup/hireai/core/resume_parser.py                                     *)
(*                                                                         *)
(* A file is its path, whether it exists, and what the extractor of its    *)
(* format gives for it: a str, None, a value of another type, or an        *)
(* exception.                                                              *)
(***************************************************************************)

\* the last position of s that holds c, 0 if none does
LastIndexOf(s, c) ==
    IF \E i \in 1..Len(s) : SubSeq(s, i, i) = c
    THEN CHOOSE i \in 1..Len(s) :
            SubSeq(s, i, i) = c /\ \A j \in (i + 1)..Len(s) : SubSeq(s, j, j) # c
    ELSE 0

\* genericpath._splitext: the extension starts at the last dot of the last
\* component, leading dots of the component apart
SplitExtAt(p, sepIndex, dotIndex) ==
    IF dotIndex > sepIndex /\ \E k \in (sepIndex + 1)..(dotIndex - 1) : SubSeq(p, k, k) # "."
    THEN SubSeq(p, dotIndex, Len(p))
    ELSE ""

\* os.path.splitext(file_path)[1]
SplitExt(p) == SplitExtAt(p, LastIndexOf(p, "/"), LastIndexOf(p, "."))

PyBytes == [t |-> "bytes", v |-> "x"]
ExtractorError == [t |-> "raise", v |-> ""]

\* how a call that raises ends: the class and the message of the exception
RaisedWith(cls, message, invoked) ==
    [t |-> "raise", cls |-> cls, v |-> message, invoked |-> invoked]

ReturnedText(text, invoked) == [t |-> "return", cls |-> "", v |-> text, invoked |-> invoked]

\* the extractor that _read_file calls for an extension
ExtractorFor(file_extension) ==
    CASE file_extension = ".pdf" -> "extract_text"
      [] file_extension = ".docx" -> "docx2txt.process"
      [] file_extension = ".txt" -> "open"
      [] OTHER -> "none"

\* lines 88-96 of _read_file: what it makes of the extracted text
CheckedText(text, invoked) ==
    IF text.t = "raise" THEN RaisedWith("Exception", "Error reading file", invoked)
    ELSE IF text.t = "NoneType" \/ (text.t = "str" /\ text.v = "")
    THEN RaisedWith("Exception", "Could not extract text from file", invoked)
    ELSE IF text.t # "str"
    THEN RaisedWith("Exception", "Invalid text type", invoked)
    ELSE ReturnedText(Strip(text.v), invoked)

ReadWith(file, invoked) ==
    IF invoked = "none" THEN RaisedWith("Exception", "Unsupported file format", invoked)
    ELSE CheckedText(file.extracted, invoked)

\* _read_file(file_path)
_read_file(file) ==
    IF ~file.exists THEN RaisedWith("FileNotFoundError", "File not found", "none")
    ELSE ReadWith(file, ExtractorFor(StrLower(SplitExt(file.path))))

\* the days of one entry as _calculate_total_experience adds them: an
\* entry whose dates strptime rejects is skipped
DaysOfDates(start, end) ==
    IF start.exc = "none" /\ end.exc = "none" THEN end.ord - start.ord ELSE 0

RECURSIVE TotalDaysOf(_, _)
TotalDaysOf(exps, i) ==
    IF i > Len(exps) THEN 0
    ELSE DaysOfDates(Strptime(PyStr(exps[i].start_date)), Strptime(PyStr(exps[i].end_date)))
            + TotalDaysOf(exps, i + 1)

\* _calculate_total_experience(experience) of the entries of
\* _extract_experience, in tenths of a year
_calculate_total_experience(exps) == Round1(TotalDaysOf(exps, 1))

\* lines 118-142 of parse_resume: the fields extracted from content
Extracted(content, person, today) ==
    [name |-> OrElse(_extract_name(content, person), "Unknown"),
     email |-> OrElse(_extract_email(content), "Not provided"),
     phone |-> OrElse(_extract_phone(content), "Not provided"),
     skills |-> _extract_skills(content),
     education |-> _extract_education(content, today),
     experience |-> _extract_experience(content, today),
     total_experience |-> _calculate_total_experience(_extract_experience(content, today))]

\* line 146
NothingExtracted(r) ==
    /\ r.name = "" /\ r.email = "" /\ r.phone = ""
    /\ r.skills = <<>> /\ r.education = <<>> /\ r.experience = <<>>

\* lines 145-159 of parse_resume
Validated(r) ==
    IF NothingExtracted(r) THEN Raised("Could not extract any information from the resume")
    ELSE Returned(r)

\* lines 110-159 of parse_resume; every exception leaves it as Exception,
\* with the message of the first one in its own
ParsedContent(content, person, today) ==
    IF content.t = "raise" THEN Raised(content.v)
    ELSE IF content.v = "" THEN Raised("Invalid or empty file content")
    ELSE Validated(Extracted(content.v, person, today))

\* parse_resume(file_path)
parse_resume(file, person, today) == ParsedContent(_read_file(file), person, today)

PathPool ==
    {"cv.pdf", "cv.PDF", "cv.docx", "cv.txt", "cv.doc", "cv", ".txt", "a.b/cv", "cv.tar.Txt"}

ExtractedPool ==
    {PyStr(""), PyStr(" \n"), PyStr("hello world"), PyStr(" John Smith\njs@x.io \n"),
     PyStr("Engineer at Acme Inc 2020 - 2015"), PyNone, PyBytes, ExtractorError}

FileCall(fn, path, exists, extracted, person, today) ==
    [fn |-> fn, path |-> path, exists |-> exists, extracted |-> extracted,
     person |-> person, today |-> today]

ParserInit ==
    /\ call \in {FileCall(fn, p, e, x, n, d) :
                    fn \in {"_read_file", "parse_resume"}, p \in PathPool, e \in BOOLEAN,
                    x \in ExtractedPool, n \in PersonPool \cup {""}, d \in Todays}
    /\ call.exists \/ call.extracted = PyNone
    /\ call.person \in {""} \cup {p.v : p \in Persons(call.extracted)}
    /\ call.fn = "_read_file" => (call.person = "" /\ call.today = "2024-06-15")
    /\ result = NoResult

\* _read_file(file_path)
ReadFile ==
    /\ pc = "parser" /\ call.fn = "_read_file"
    /\ result' = _read_file(call)
    /\ pc' = "parser:done"
    /\ UNCHANGED <<call, not_cvars>>

\* parse_resume(file_path)
ParseResume ==
    /\ pc = "parser" /\ call.fn = "parse_resume"
    /\ result' = parse_resume(call, PersonOf(call), call.today)
    /\ pc' = "parser:done"
    /\ UNCHANGED <<call, not_cvars>>

-----------------------------------------------------------------------------
(***************************************************************************)
(* json.loads and the values it gives                                      *)
(*                                                                         *)
(* Values: PyStr, PyInt (by its numeral), PyNone, PyBool, PyList and       *)
(* PyDict (keys in insertion order).  Strings without escapes, numbers     *)
(* without fraction or exponent.                                           *)
(***************************************************************************)

PyBool(b) == [t |-> "bool", v |-> b]
PyDict(keys, vals) == [t |-> "dict", keys |-> keys, vals |-> vals]

\* key in d
DictHas(d, key) == \E i \in 1..Len(d.keys) : d.keys[i] = key

\* d[key]
DictAt(d, key) == d.vals[CHOOSE i \in 1..Len(d.keys) : d.keys[i] = key]

\* d after d[key] = val
DictSet(d, key, val) ==
    IF DictHas(d, key)
    THEN PyDict(d.keys, [i \in 1..Len(d.vals) |-> IF d.keys[i] = key THEN val ELSE d.vals[i]])
    ELSE PyDict(Append(d.keys, key), Append(d.vals, val))

\* position i of s holds c
At(s, i, c) == i <= Len(s) /\ SubSeq(s, i, i) = c

\* the first position from i on that holds no JSON whitespace
RECURSIVE SkipWs(_, _)
SkipWs(s, i) ==
    IF i <= Len(s) /\ SubSeq(s, i, i) \in {" ", "\t", "\n"} THEN SkipWs(s, i + 1) ELSE i

\* the first position from i on that holds a character of stops, Len(s) + 1
\* if none does
RECURSIVE ScanTo(_, _, _)
ScanTo(s, i, stops) ==
    IF i > Len(s) \/ SubSeq(s, i, i) \in stops THEN i ELSE ScanTo(s, i + 1, stops)

\* the first position from i on that holds no digit
RECURSIVE SkipDigits(_, _)
SkipDigits(s, i) ==
    IF i <= Len(s) /\ SubSeq(s, i, i) \in DigitChars THEN SkipDigits(s, i + 1) ELSE i

\* JSONDecodeError, or a value and the position behind it
JFail == [ok |-> FALSE, v |-> PyNone, next |-> 0]
JOk(v, next) == [ok |-> TRUE, v |-> v, next |-> next]

\* a string that opens at position i and closes at position j
JStringTo(s, i, j) ==
    IF At(s, j, "\"") THEN JOk(PyStr(SubSeq(s, i + 1, j - 1)), j + 1) ELSE JFail

JString(s, i) == JStringTo(s, i, ScanTo(s, i + 1, {"\"", "\\", "\n", "\t"}))

\* a number whose digits run from position i to before position j
JNumberTo(s, start, i, j) ==
    IF j = i \/ (j > i + 1 /\ At(s, i, "0")) \/ At(s, j, ".") \/ At(s, j, "e") \/ At(s, j, "E")
    THEN JFail
    ELSE JOk(PyInt(SubSeq(s, start, j - 1)), j)

JNumber(s, i) ==
    IF At(s, i, "-") THEN JNumberTo(s, i, i + 1, SkipDigits(s, i + 1))
    ELSE JNumberTo(s, i, i, SkipDigits(s, i))

\* s holds word at position i
StartsAt(s, i, word) == i + Len(word) - 1 <= Len(s) /\ SubSeq(s, i, i + Len(word) - 1) = word

RECURSIVE JValue(_, _)
RECURSIVE JMembers(_, _, _)
RECURSIVE JElements(_, _, _)

\* after a member: the object closes, or a comma and the next key follow
MoreMembers(s, i, d) ==
    IF At(s, i, "}") THEN JOk(d, i + 1)
    ELSE IF At(s, i, ",") THEN JMembers(s, SkipWs(s, i + 1), d)
    ELSE JFail

AfterMember(s, key, val, d) ==
    IF val.ok THEN MoreMembers(s, SkipWs(s, val.next), DictSet(d, key, val.v)) ELSE JFail

AfterColon(s, key, i, d) ==
    IF At(s, i, ":") THEN AfterMember(s, key.v.v, JValue(s, SkipWs(s, i + 1)), d) ELSE JFail

AfterKey(s, key, d) ==
    IF key.ok THEN AfterColon(s, key, SkipWs(s, key.next), d) ELSE JFail

\* the members of an object from the key at position i on
JMembers(s, i, d) ==
    IF At(s, i, "\"") THEN AfterKey(s, JString(s, i), d) ELSE JFail

\* after an element: the array closes, or a comma and the next element
\* follow
MoreElements(s, i, items) ==
    IF At(s, i, "]") THEN JOk(PyList(items), i + 1)
    ELSE IF At(s, i, ",") THEN JElements(s, SkipWs(s, i + 1), items)
    ELSE JFail

AfterElement(s, val, items) ==
    IF val.ok THEN MoreElements(s, SkipWs(s, val.next), Append(items, val.v)) ELSE JFail

\* the elements of an array from the one at position i on
JElements(s, i, items) == AfterElement(s, JValue(s, i), items)

JObject(s, i) ==
    IF At(s, i, "}") THEN JOk(PyDict(<<>>, <<>>), i + 1) ELSE JMembers(s, i, PyDict(<<>>, <<>>))

JArray(s, i) ==
    IF At(s, i, "]") THEN JOk(PyList(<<>>), i + 1) ELSE JElements(s, i, <<>>)

\* the value that starts at position i
JValue(s, i) ==
    IF At(s, i, "{") THEN JObject(s, SkipWs(s, i + 1))
    ELSE IF At(s, i, "[") THEN JArray(s, SkipWs(s, i + 1))
    ELSE IF At(s, i, "\"") THEN JString(s, i)
    ELSE IF StartsAt(s, i, "null") THEN JOk(PyNone, i + 4)
    ELSE IF StartsAt(s, i, "true") THEN JOk(PyBool("True"), i + 4)
    ELSE IF StartsAt(s, i, "false") THEN JOk(PyBool("False"), i + 5)
    ELSE JNumber(s, i)

\* a value must be followed by whitespace only
WholeText(s, val) == IF val.ok /\ SkipWs(s, val.next) = Len(s) + 1 THEN val ELSE JFail

\* json.loads(s)
JsonLoads(s) == WholeText(s, JValue(s, SkipWs(s, 1)))

-----------------------------------------------------------------------------
(***************************************************************************)
(* HireAIDemo.analyze_job_requirements, hireai/examples/end_to_end_demo.py *)
(*                                                                         *)
(* reply is what the provider call gives: the str of                       *)
(* response.choices[0].message.content, None, or an exception.  A string   *)
(* here cannot hold the backquote of a Markdown fence, so ~ is written for *)
(* it throughout; no reply holds a ~ of its own.                           *)
(***************************************************************************)

\* the backquote
Backquote == "~"

\* a Markdown fence
Fence == Backquote \o Backquote \o Backquote

\* the characters of the replies
AnyChar == CharsOf(CodePoints) \cup {"{", "}", "\"", Backquote, "'", "?"}

\* \{[\s\S]*\}
BracePattern == ReCat(<<ReLit("{"), ReStar(ReSet(AnyChar)), ReLit("}")>>)

\* (fence)json\s*|\s*(fence)
FencePattern ==
    ReAlt(<<ReCat(<<ReLit(Fence \o "json"), ReStar(ReSpace)>>),
            ReCat(<<ReStar(ReSpace), ReLit(Fence)>>)>>)

\* re.sub(pattern, '', s) from position i on, for a pattern that matches no
\* empty string
RECURSIVE ReSubFrom(_, _, _)
ReSubFrom(re, s, i) ==
    IF i > Len(s) THEN ""
    ELSE IF Ends(re, s, i) # <<>> THEN ReSubFrom(re, s, Head(Ends(re, s, i)))
    ELSE SubSeq(s, i, i) \o ReSubFrom(re, s, i + 1)

\* lines 174-187: the JSON object looked for inside the reply
ExtractedJson(content, m) ==
    IF m.found THEN JsonLoads(ReSubFrom(FencePattern, Group0(content, m), 1)) ELSE JFail

\* lines 164-187: analysis, or the JSONDecodeError that leaves the try block
ParsedReply(content, direct) ==
    IF direct.ok THEN direct ELSE ExtractedJson(content, ReSearch(BracePattern, content))

required_keys ==
    <<"required_skills", "required_experience", "required_education",
      "responsibilities", "preferred_qualifications">>

\* key in analysis, for the types that have the operator
KeyIn(key, analysis) ==
    CASE analysis.t = "dict" -> DictHas(analysis, key)
      [] analysis.t = "list" -> \E i \in 1..Len(analysis.items) : analysis.items[i] = PyStr(key)
      [] analysis.t = "str" -> Contains(analysis.v, key)

\* line 192
MissingKeys(analysis) == SelectSeq(required_keys, LAMBDA key : ~KeyIn(key, analysis))

NotSpecified == PyStr("Not specified")

\* lines 201-205
FilledRequirement ==
    PyDict(<<"years", "level", "description">>, <<PyInt("0"), NotSpecified, NotSpecified>>)

\* lines 198-207: the value a missing key gets
FillOf(key) ==
    IF key = "required_skills" THEN PyList(<<>>)
    ELSE IF key \in {"required_experience", "required_education"} THEN FilledRequirement
    ELSE PyList(<<>>)

\* lines 197-207
RECURSIVE Filled(_, _, _)
Filled(analysis, missing_keys, i) ==
    IF i > Len(missing_keys) THEN analysis
    ELSE Filled(DictSet(analysis, missing_keys[i], FillOf(missing_keys[i])), missing_keys, i + 1)

\* lines 219-233: the default structure
DefaultStructure ==
    PyDict(required_keys,
           <<PyList(<<>>),
             PyDict(<<"years", "level", "description">>, <<PyInt("0"), NotSpecified, NotSpecified>>),
             PyDict(<<"degree", "field", "description">>, <<NotSpecified, NotSpecified, NotSpecified>>),
             PyList(<<>>),
             PyList(<<>>)>>)

\* lines 190-210: a value without the operator in, or with missing keys and
\* without item assignment, raises TypeError
Completed(analysis) ==
    IF analysis.t \notin {"dict", "list", "str"} THEN DefaultStructure
    ELSE IF MissingKeys(analysis) = <<>> THEN analysis
    ELSE IF analysis.t # "dict" THEN DefaultStructure
    ELSE Filled(analysis, MissingKeys(analysis), 1)

CompletedReply(parsed) == IF parsed.ok THEN Completed(parsed.v) ELSE DefaultStructure

\* lines 156-210 for the content of the reply
AnalysisOf(response_content) ==
    IF response_content = "" THEN DefaultStructure
    ELSE CompletedReply(ParsedReply(response_content, JsonLoads(response_content)))

\* analyze_job_requirements(job_description): every exception ends in the
\* default structure
analyze_job_requirements(job_description, reply) ==
    IF job_description.t # "str" \/ job_description.v = "" THEN Returned(DefaultStructure)
    ELSE IF reply.t # "str" THEN Returned(DefaultStructure)
    ELSE Returned(AnalysisOf(Strip(reply.v)))

JobDescriptions == {PyNone, PyStr(""), PyInt("7"), PyStr("Senior Python developer")}

ReplyTexts ==
    {"",
     " \n",
     "{}",
     "[]",
     "42",
     "null",
     "true",
     "\"required_skills\"",
     "I cannot help with that.",
     "{not json}",
     "{\"required_skills\": [\"python\"]}",
     " {\"required_skills\": [\"python\", \"aws\"], \"required_experience\": {\"years\": 5, \"level\": \"Senior\", \"description\": \"backend\"}, \"required_education\": {\"degree\": \"BS\", \"field\": \"CS\", \"description\": \"any\"}, \"responsibilities\": [\"build\"], \"preferred_qualifications\": []}\n",
     "{\"required_skills\": [], \"required_experience\": {\"years\": 2}, \"responsibilities\": [], \"preferred_qualifications\": []}",
     "{\"required_education\": {\"degree\": \"MS\"}, \"extra\": null}",
     "{\"responsibilities\": \"build\", \"responsibilities\": [1, -2]}",
     "[\"required_skills\", \"required_experience\", \"required_education\", \"responsibilities\", \"preferred_qualifications\"]",
     "\"required_skills required_experience required_education responsibilities preferred_qualifications\"",
     "Here is the analysis:\n" \o Fence \o "json\n{\"required_skills\": [\"sql\"]}\n" \o Fence,
     "{" \o Fence \o "json \"responsibilities\": [] " \o Fence \o "}",
     "Sure! {\"a\": 1} and {\"b\": 2}",
     "Result: {\"preferred_qualifications\": [\"phd\"],}",
     "{\"required_skills\": [\"go\"]} hope this helps"}

\* what the provider call gives
ProviderReplies == {PyNone, ExtractorError} \cup {PyStr(r) : r \in ReplyTexts}

JobCall(job_description, reply) ==
    [fn |-> "analyze_job_requirements", job_description |-> job_description, reply |-> reply]

JobInit ==
    /\ call \in {JobCall(j, r) : j \in JobDescriptions, r \in ProviderReplies}
    /\ result = NoResult

\* analyze_job_requirements(job_description)
AnalyzeJobRequirements ==
    /\ pc = "job"
    /\ result' = analyze_job_requirements(call.job_description, call.reply)
    /\ pc' = "job:done"
    /\ UNCHANGED <<call, not_cvars>>

-----------------------------------------------------------------------------
(***************************************************************************)
(* SimilarityCalculator(method) and calculate_similarity                   *)
(*                                                                         *)
(* The class defines _calculate_tfidf_similarity and                       *)
(* _calculate_embedding_similarity twice; the later definitions (lines     *)
(* 133 and 166) are the ones calculate_similarity (line 115) reaches.      *)
(***************************************************************************)

\* the attributes __init__ sets
Attributes(method) ==
    IF method = "tfidf" THEN {"method", "vectorizer"}
    ELSE IF method = "embeddings" THEN {"method", "client", "deployment"}
    ELSE {"method"}

\* the vectors a sentence encoder gives: one for the texts of the job, one
\* for the texts of the candidate
EncoderVectors == {<<1, 0>>, <<1, 1>>, <<0, 2>>}

FloatRow(v) == [i \in 1..Len(v) |-> FromInt(v[i])]

\* cosine_similarity([job_embedding], [candidate_embedding])[0][0]
EmbeddingCosine(encoder) == RowCosine(FloatRow(encoder.job), FloatRow(encoder.candidate))

\* _calculate_skills_embedding_similarity and the two methods after it
CategoryEmbeddingSimilarity(either_empty, encoder) ==
    IF either_empty THEN FZero ELSE EmbeddingCosine(encoder)

\* the detailed_scores dict of _calculate_embedding_similarity
EmbeddingScores(job, cand, encoder) ==
    [skills |-> CategoryEmbeddingSimilarity(
                    DictGet(job.skills) = <<>> \/ DictGet(cand.skills) = <<>>, encoder),
     location |-> CategoryEmbeddingSimilarity(
                    DictGet(job.location) = "" \/ DictGet(cand.location) = "", encoder),
     experience |-> CategoryEmbeddingSimilarity(
                    DictGet(job.experience_level) = ""
                        \/ DictGet(cand.experience_level) = "", encoder)]

\* the tuple calculate_similarity returns
ScoresTuple(scores) == Returned([overall |-> WeightedScore(scores), scores |-> scores])

\* _calculate_embedding_similarity(job_info, candidate) on an object with
\* the attributes given: the two texts are prepared (lines 171-172, which
\* do not fail on a dict of a list of strings and two strings), then line
\* 175 reads self.model
_calculate_embedding_similarity(attributes, job, cand, encoder) ==
    IF "model" \notin attributes THEN Raised("AttributeError")
    ELSE ScoresTuple(EmbeddingScores(job, cand, encoder))

\* calculate_similarity(job_info, candidate), lines 115-131
calculate_similarity(c) ==
    IF c.method = "tfidf" THEN ScoresTuple(DetailedScores(c.job_info, c.candidate))
    ELSE _calculate_embedding_similarity(c.attributes, c.job_info, c.candidate, c.encoder)

Methods == {"tfidf", "embeddings", "bert"}

\* whether the embedding provider can be reached
Providers == {"reachable", "unreachable"}

CalculatorJobs ==
    {Profile(s, l, e) :
        s \in {AbsentList, Present(<<>>), Present(<<"python", "sql">>)},
        l \in {AbsentStr, Present("new york")},
        e \in {Present(""), Present("senior")}}

CalculatorCandidates ==
    {Profile(s, l, e) :
        s \in {Present(<<>>), Present(<<"python">>)},
        l \in {Present(""), Present("new york")},
        e \in {AbsentStr, Present("senior")}}

Encoders == {[job |-> a, candidate |-> b] : a, b \in EncoderVectors}

CalculatorCall(method, provider, job, cand, encoder) ==
    [fn |-> "calculate_similarity", method |-> method, provider |-> provider,
     attributes |-> {}, job_info |-> job, candidate |-> cand, encoder |-> encoder]

CalculatorInit ==
    /\ call \in {CalculatorCall(m, p, j, c, e) :
                    m \in Methods, p \in Providers, j \in CalculatorJobs,
                    c \in CalculatorCandidates, e \in Encoders}
    /\ call.encoder.job = <<1, 0>> \/ call.method = "embeddings"
    /\ call.encoder.candidate = <<1, 0>> \/ call.method = "embeddings"
    /\ result = NoResult

\* SimilarityCalculator(method), lines 18-38
NewCalculator ==
    /\ pc = "calculator"
    /\ call' = [call EXCEPT !.attributes = Attributes(call.method)]
    /\ result' = IF call.method \in {"tfidf", "embeddings"} THEN NoResult
                 ELSE Raised("ValueError")
    /\ pc' = IF call.method \in {"tfidf", "embeddings"} THEN "calculator:made"
             ELSE "calculator:raised"
    /\ UNCHANGED not_cvars

\* calculate_similarity(job_info, candidate) on the calculator made
CalculateSimilarityCall ==
    /\ pc = "calculator:made"
    /\ result' = calculate_similarity(call)
    /\ pc' = "calculator:done"
    /\ UNCHANGED <<call, not_cvars>>

-----------------------------------------------------------------------------
(***************************************************************************)
(* Two calculate_similarity calls on one SimilarityCalculator("tfidf")     *)
(*                                                                         *)
(* self.vectorizer is made once, in __init__, and every fit_transform of   *)
(* every call goes to it.  fit_transform is two steps on the vectorizer:   *)
(* the fit stores the idf weights of the two documents given, the          *)
(* transform weights the term counts of the caller's documents with the    *)
(* weights stored at that time and raises ValueError when their number is  *)
(* not the number of the caller's terms.  Nothing in similarity.py keeps   *)
(* the steps of two calls apart.                                           *)
(***************************************************************************)

Threads == {1, 2}

\* the fit_transform calls of _calculate_tfidf_similarity in order: the full
\* texts, then skills, location and experience
Categories == <<"text", "skills", "location", "experience">>

\* the two texts of a fit_transform call
CategoryTexts(k, job, cand) ==
    CASE k = 1 -> <<_prepare_text_for_tfidf(job), _prepare_text_for_tfidf(cand)>>
      [] k = 2 -> <<JoinSpace(DictGet(job.skills)), JoinSpace(DictGet(cand.skills))>>
      [] k = 3 -> <<DictGet(job.location), DictGet(cand.location)>>
      [] k = 4 -> <<DictGet(job.experience_level), DictGet(cand.experience_level)>>

\* the guard of a category method: either value is empty
CategoryEmpty(k, job, cand) ==
    CASE k = 1 -> FALSE
      [] k = 2 -> DictGet(job.skills) = <<>> \/ DictGet(cand.skills) = <<>>
      [] k = 3 -> DictGet(job.location) = "" \/ DictGet(cand.location) = ""
      [] k = 4 -> DictGet(job.experience_level) = "" \/ DictGet(cand.experience_level) = ""

\* the idf weights a fit on the documents a and b stores, in column order
IdfRow(terms, a, b) == [i \in 1..Len(terms) |-> Idf(terms[i], a, b)]

\* the vectorizer after the fit of thread c on the documents a and b
FittedBy(c, a, b) == [idf |-> IdfRow(Terms(a, b), a, b), by |-> c]

NotFitted == [idf |-> <<>>, by |-> 0]

\* the row of document doc weighted with the stored idf
WeightedRow(doc, terms, idf) ==
    [i \in 1..Len(terms) |-> FMul(FromInt(Count(terms[i], doc)), idf[i])]

\* transform and cosine_similarity under except ValueError, with the idf the
\* vectorizer holds
TransformedCosine(a, b, terms, idf) ==
    IF Len(idf) # Len(terms) THEN FZero
    ELSE RowCosine(L2Normalize(WeightedRow(a, terms, idf)),
                   L2Normalize(WeightedRow(b, terms, idf)))

TransformedSimilarity(texts, idf) ==
    TransformedCosine(Analyze(texts[1]), Analyze(texts[2]),
                      Terms(Analyze(texts[1]), Analyze(texts[2])), idf)

\* a call: its arguments, the fit_transform it is at, and its scores
Thread(job, cand) ==
    [job |-> job, cand |-> cand, at |-> 1, phase |-> "fit",
     scores |-> <<FZero, FZero, FZero, FZero>>, weighted |-> FZero, foreign |-> FALSE]

ThreadPairs ==
    {<<Profile(Present(<<"python", "sql">>), Present("new york"), Present("senior")),
       Profile(Present(<<"python">>), Present("York"), Present("senior"))>>,
     <<Profile(Present(<<"sql", "python">>), AbsentStr, Present("junior")),
       Profile(Present(<<"sql">>), Present("new york"), Present("senior"))>>,
     <<Profile(Present(<<"java">>), Present("york"), Present("senior")),
       Profile(Present(<<"java", "aws", "sql">>), Present("new york"), Present(""))>>}

ConcurrentIdle ==
    /\ threads = <<>>
    /\ vectorizer = NotFitted

ConcurrentInit ==
    /\ threads \in {<<Thread(p[1], p[2]), Thread(q[1], q[2])>> : p, q \in ThreadPairs}
    /\ vectorizer = NotFitted

\* the thread after the fit_transform it is at gave score
AfterCategory(th, score) ==
    [th EXCEPT !.scores[th.at] = score,
               !.at = th.at + 1,
               !.phase = IF th.at = Len(Categories) THEN "return" ELSE "fit"]

\* the guard of the category method and the fit: the guard or an empty
\* vocabulary (ValueError) ends the category with 0.0 and leaves the
\* vectorizer as it is
FitOf(c, th, texts, vec) ==
    IF CategoryEmpty(th.at, th.job, th.cand) \/ Fit(Analyze(texts[1]), Analyze(texts[2])).exc # "none"
    THEN [th |-> AfterCategory(th, FZero), vec |-> vec]
    ELSE [th |-> [th EXCEPT !.phase = "transform"],
          vec |-> FittedBy(c, Analyze(texts[1]), Analyze(texts[2]))]

FitStep(c) ==
    /\ pc = "threads"
    /\ threads[c].phase = "fit"
    /\ threads' = [threads EXCEPT ![c] =
            FitOf(c, threads[c], CategoryTexts(threads[c].at, threads[c].job, threads[c].cand),
                  vectorizer).th]
    /\ vectorizer' =
            FitOf(c, threads[c], CategoryTexts(threads[c].at, threads[c].job, threads[c].cand),
                  vectorizer).vec
    /\ UNCHANGED <<pc, not_tvars>>

\* the transform and cosine_similarity of the fit_transform the thread is at
TransformOf(c, th, texts, vec) ==
    [AfterCategory(th, TransformedSimilarity(texts, vec.idf)) EXCEPT
        !.foreign = th.foreign \/ vec.by # c]

TransformStep(c) ==
    /\ pc = "threads"
    /\ threads[c].phase = "transform"
    /\ threads' = [threads EXCEPT ![c] =
            TransformOf(c, threads[c],
                        CategoryTexts(threads[c].at, threads[c].job, threads[c].cand), vectorizer)]
    /\ UNCHANGED <<pc, vectorizer, not_tvars>>

\* detailed_scores of a thread
ThreadScores(th) ==
    [skills |-> th.scores[2], location |-> th.scores[3], experience |-> th.scores[4]]

\* lines 160-164: the weighted average, return
ReturnStep(c) ==
    /\ pc = "threads"
    /\ threads[c].phase = "return"
    /\ threads' = [threads EXCEPT ![c].weighted = WeightedScore(ThreadScores(threads[c])),
                                  ![c].phase = "done"]
    /\ UNCHANGED <<pc, vectorizer, not_tvars>>

\* C17: when two calculate_similarity calls on one calculator interleave,
\* neither transforms its texts with weights the other fitted, and each
\* returns what it returns when run alone.
C17_VocabularyCallScoped ==
    \A c \in Threads :
        pc = "threads" =>
            /\ ~threads[c].foreign
            /\ threads[c].phase = "done" =>
                    /\ ThreadScores(threads[c]) = DetailedScores(threads[c].job, threads[c].cand)
                    /\ threads[c].weighted =
                            WeightedScore(DetailedScores(threads[c].job, threads[c].cand))

-----------------------------------------------------------------------------
(***************************************************************************)
(* Properties of the line scanners and of the parser                     *)
(***************************************************************************)

\* C11: the education extracted from the scenario resume is one entry, with
\* a degree that holds "Bachelor", an institution that holds "MIT", start
\* date 2015-01-01 and end date 2019-12-31.
C11_ScenarioEducation ==
    (pc = "education:done" /\ resume_text = PyStr(ScenarioResume)) =>
        /\ Len(entries) = 1
        /\ Contains(entries[1].degree, "Bachelor")
        /\ Contains(entries[1].institution, "MIT")
        /\ entries[1].start_date = "2015-01-01"
        /\ entries[1].end_date = "2019-12-31"

\* s is a calendar date written %Y-%m-%d
IsCalendarDate(s) == Strptime(PyStr(s)).exc = "none"

\* C20: every entry that _extract_experience returns whose start_date and
\* end_date are both calendar dates has start_date <= end_date.
C20_StartNotAfterEnd ==
    pc = "experience:done" =>
        \A i \in 1..Len(entries) :
            (IsCalendarDate(entries[i].start_date) /\ IsCalendarDate(entries[i].end_date)) =>
                Strptime(PyStr(entries[i].start_date)).ord <= Strptime(PyStr(entries[i].end_date)).ord

\* the documented default of an extractor
DefaultOf(fn) ==
    CASE fn = "_extract_name" -> Returned("Unknown")
      [] fn \in {"_extract_email", "_extract_phone"} -> Returned("Not provided")
      [] OTHER -> Returned(<<>>)

\* C13: each of the six extractors, given the empty string or None, returns
\* its default ("Unknown", "Not provided", "Not provided", [], [], []) and
\* does not raise.
C13_DefaultOnEmptyOrNone ==
    (pc = "extractor:done" /\ NotText(call.text)) =>
        (result.t = "return" /\ result = DefaultOf(call.fn))

\* the text parse_resume works on, when _read_file returns one
ContentOf(file) == _read_file(file).v

\* every extractor gives its default for the content of the file
AllDefaults(r) ==
    /\ r.name = "Unknown" /\ r.email = "Not provided" /\ r.phone = "Not provided"
    /\ r.skills = <<>> /\ r.education = <<>> /\ r.experience = <<>>

ParsedNonEmpty ==
    /\ pc = "parser:done" /\ call.fn = "parse_resume"
    /\ _read_file(call).t = "return" /\ ContentOf(call) # ""

\* C12: when every extractor returns its default for the text of the
\* document, parse_resume raises instead of returning a record; when at
\* least one returns something else it returns the record.
C12_FailsOnlyWhenAllDefault ==
    ParsedNonEmpty =>
        IF AllDefaults(Extracted(ContentOf(call), PersonOf(call), call.today))
        THEN result.t = "raise"
        ELSE result = Returned(Extracted(ContentOf(call), PersonOf(call), call.today))

\* C14: _read_file never returns an empty string: whitespace-only text of a
\* supported format raises, and an unsupported extension raises without any
\* extractor being called.
C14_NeverReturnsEmpty ==
    (pc = "parser:done" /\ call.fn = "_read_file") =>
        /\ result.t = "return" => result.v # ""
        /\ (call.exists /\ StrLower(SplitExt(call.path)) \notin {".pdf", ".docx", ".txt"}) =>
                (result.t = "raise" /\ result.invoked = "none")

-----------------------------------------------------------------------------
(***************************************************************************)
(* Properties of analyze_job_requirements                                  *)
(***************************************************************************)

\* C15: analyze_job_requirements never raises and, whatever the provider
\* call gives and whatever the job description is, returns a mapping that
\* holds all five required keys.
C15_AlwaysAllRequiredKeys ==
    pc = "job:done" =>
        /\ result.t = "return"
        /\ result.v.t = "dict"
        /\ \A i \in 1..Len(required_keys) : DictHas(result.v, required_keys[i])

\* the analysis parsed from the reply of the call
AnalysisParsed == ParsedReply(Strip(call.reply.v), JsonLoads(Strip(call.reply.v)))

\* the call got a reply that parses to an object
ParsedToObject ==
    /\ pc = "job:done"
    /\ call.job_description.t = "str" /\ call.job_description.v # ""
    /\ call.reply.t = "str" /\ Strip(call.reply.v) # ""
    /\ AnalysisParsed.ok /\ AnalysisParsed.v.t = "dict"

\* C16: a required key that the parsed object lacks gets the value the
\* default structure has for it.
C16_FillIsDeclaredDefault ==
    ParsedToObject =>
        \A i \in 1..Len(required_keys) :
            ~DictHas(AnalysisParsed.v, required_keys[i]) =>
                DictAt(result.v, required_keys[i]) = DictAt(DefaultStructure, required_keys[i])

(***************************************************************************)
(* Properties of the calculator made with method "embeddings"              *)
(***************************************************************************)

\* the category is empty on the side of the job or of the candidate
EmptyCategory(c, category) ==
    IF category = "skills"
        THEN DictGet(c.job_info.skills) = <<>> \/ DictGet(c.candidate.skills) = <<>>
    ELSE IF category = "location"
        THEN DictGet(c.job_info.location) = "" \/ DictGet(c.candidate.location) = ""
    ELSE DictGet(c.job_info.experience_level) = ""
            \/ DictGet(c.candidate.experience_level) = ""

\* the tuple has the weighted overall score and 0.0 for the empty categories
WeightedWithZeros(c, v) ==
    /\ v.overall = FAdd(FAdd(FMul(Tenths(6), v.scores.skills),
                             FMul(Tenths(2), v.scores.location)),
                        FMul(Tenths(2), v.scores.experience))
    /\ EmptyCategory(c, "skills") => v.scores.skills = FZero
    /\ EmptyCategory(c, "location") => v.scores.location = FZero
    /\ EmptyCategory(c, "experience") => v.scores.experience = FZero

\* C18: a calculator made with method "embeddings", whose provider can be
\* reached, returns from calculate_similarity(job, candidate) the pair
\* (overall, components) with overall = 0.6*skills + 0.2*location +
\* 0.2*experience and 0.0 for every category that is empty on either side;
\* the call fails only when the provider cannot be reached.
C18_EmbeddingsInterchangeable ==
    (pc = "calculator:done" /\ call.method = "embeddings"
        /\ call.provider = "reachable") =>
        /\ result.t = "return"
        /\ WeightedWithZeros(call, result.v)

-----------------------------------------------------------------------------
(***************************************************************************)
(* ResumeParser.parse, hireai/core/parser.py                               *)
(*                                                                         *)
(* The module binds the name ResumeParser twice: line 3 imports the class  *)
(* of pyresparser, line 9 defines the class of the module.  A method that  *)
(* runs reads the name from the globals of the module, which hold the      *)
(* binding made last.                                                      *)
(***************************************************************************)

\* the bindings of the module's globals, in the order of its statements
ModuleBindings ==
    <<[name |-> "nltk", value |-> "nltk"],
      [name |-> "ResumeParser", value |-> "pyresparser.ResumeParser"],
      [name |-> "ResumeParser", value |-> "hireai.core.parser.ResumeParser"]>>

BindingsOf(name) == {i \in 1..Len(ModuleBindings) : ModuleBindings[i].name = name}

Latest(indices) == CHOOSE i \in indices : \A j \in indices : j <= i

\* the value of a global name once the module is imported
GlobalLookup(name) == ModuleBindings[Latest(BindingsOf(name))].value

\* s.split(sep) for a separator of one or more characters
RECURSIVE SplitStr(_, _)
SplitStr(s, sep) ==
    IF ~Contains(s, sep) THEN <<s>>
    ELSE <<SubSeq(s, 1, (CHOOSE i \in 1..Len(s) :
                            /\ SubSeq(s, i, i + Len(sep) - 1) = sep
                            /\ \A j \in 1..(i - 1) : SubSeq(s, j, j + Len(sep) - 1) # sep) - 1)>>
            \o SplitStr(SubSeq(s, (CHOOSE i \in 1..Len(s) :
                            /\ SubSeq(s, i, i + Len(sep) - 1) = sep
                            /\ \A j \in 1..(i - 1) : SubSeq(s, j, j + Len(sep) - 1) # sep)
                                  + Len(sep), Len(s)), sep)

\* extract_skills_from_text(text)
extract_skills_from_text(text) ==
    IF text = "" THEN <<>>
    ELSE SortedList({p[2] : p \in {q \in skill_mappings : Contains(StrLower(text), q[1])}})

IsStr(x) == x.t = "str"

\* lines 224-239: the entry of one degree string
EducationOfDegree(degree, degree_parts) ==
    [degree |-> IF Len(degree_parts) > 1 THEN Strip(degree_parts[1]) ELSE Strip(degree),
     field_of_study |-> IF Len(degree_parts) > 1 THEN Strip(degree_parts[2]) ELSE "Unknown",
     institution |-> "Unknown",
     start_date |-> PyNone, end_date |-> PyNone, gpa |-> PyNone]

EducationOfStrings(strs) ==
    [i \in 1..Len(strs) |-> EducationOfDegree(strs[i].v, SplitStr(strs[i].v, " in "))]

\* _process_education(degrees), for a list
_process_education(degrees) == EducationOfStrings(SelectSeq(degrees, IsStr))

\* lines 250-261: title and company of one experience string
TitleAndCompany(exp) ==
    IF Contains(exp, " at ") THEN SplitStr(exp, " at ")
    ELSE IF Contains(exp, " with ") THEN SplitStr(exp, " with ")
    ELSE <<"Unknown", "Unknown">>

ExperienceOfString(exp, parts) ==
    [company |-> Strip(parts[2]), title |-> Strip(parts[1]), description |-> exp,
     start_date |-> PyNone, end_date |-> PyNone, skills |-> <<>>]

ExperienceOfStrings(strs) ==
    [i \in 1..Len(strs) |-> ExperienceOfString(strs[i].v, TitleAndCompany(strs[i].v))]

\* _process_experience(experiences), for a list
_process_experience(experiences) == ExperienceOfStrings(SelectSeq(experiences, IsStr))

\* lines 171-176: skills_from_experience
RECURSIVE SkillsFromExperience(_)
SkillsFromExperience(strs) ==
    IF strs = <<>> THEN <<>>
    ELSE extract_skills_from_text(Head(strs).v) \o SkillsFromExperience(Tail(strs))

\* lines 170-195: parsed_data, of the data pyresparser extracted
ParsedData(data) ==
    [name |-> data.name,
     skills |-> normalize_skills(
                    AsArg(data.skills
                          \o SkillsFromExperience(SelectSeq(data.experience, IsStr)))),
     education |-> _process_education(data.degree),
     experience |-> _process_experience(data.experience),
     raw_data |-> data]

\* ResumeParser(file_path).get_extracted_data() at line 167, for the class
\* the name is bound to: __init__ of the class of the module takes no
\* argument besides self
ExtractedData(class, extraction) ==
    IF class = "hireai.core.parser.ResumeParser" THEN Raised("TypeError")
    ELSE extraction

\* lines 165-200: every exception becomes Exception("Error parsing resume: ...")
ParseOf(extracted) ==
    IF extracted.t = "raise" THEN Raised("Exception: Error parsing resume")
    ELSE Returned(ParsedData(extracted.v))

\* parse(file_path)
parse(extraction) == ParseOf(ExtractedData(GlobalLookup("ResumeParser"), extraction))

ResumeData(name, s, d, e) == [name |-> name, skills |-> s, degree |-> d, experience |-> e]

\* what pyresparser extracts from the files read
ExtractedSkills == {<<>>, <<"JS">>, <<"Python", "AWS/Azure">>}

ExtractedDegrees ==
    {<<>>, <<PyStr("BSc in Physics")>>, <<PyStr(" MBA "), PyNone>>,
     <<PyStr("PhD in Math in Oslo"), PyStr("in ")>>}

ExtractedExperience ==
    {<<>>, <<PyStr("Developer at Acme using py")>>,
     <<PyStr("Engineer with Initech"), PyNone>>,
     <<PyStr("intern"), PyStr("Lead at X at Y with Z")>>}

ResumeDatas ==
    {ResumeData(n, s, d, e) : n \in {"", "Jane Doe"}, s \in ExtractedSkills,
                              d \in ExtractedDegrees, e \in ExtractedExperience}

\* what get_extracted_data of pyresparser does with the file: the data, or
\* an exception for a file it cannot read
Extractions == {Raised("OSError")} \cup {Returned(x) : x \in ResumeDatas}

ProcessorNames == {"parse", "_process_education", "_process_experience"}

ProcessorCall(fn, extraction) == [fn |-> fn, extraction |-> extraction]

ProcessorInit ==
    /\ call \in {ProcessorCall(fn, x) : fn \in ProcessorNames, x \in Extractions}
    /\ call.fn = "parse" \/ call.extraction.t = "return"
    /\ result = NoResult

\* parse(file_path)
Parse ==
    /\ pc = "processor" /\ call.fn = "parse"
    /\ result' = parse(call.extraction)
    /\ pc' = "processor:done"
    /\ UNCHANGED <<call, not_cvars>>

\* _process_education(degrees) on the degrees of the data
ProcessEducation ==
    /\ pc = "processor" /\ call.fn = "_process_education"
    /\ result' = Returned(_process_education(call.extraction.v.degree))
    /\ pc' = "processor:done"
    /\ UNCHANGED <<call, not_cvars>>

\* _process_experience(experiences) on the experience of the data
ProcessExperience ==
    /\ pc = "processor" /\ call.fn = "_process_experience"
    /\ result' = Returned(_process_experience(call.extraction.v.experience))
    /\ pc' = "processor:done"
    /\ UNCHANGED <<call, not_cvars>>

(***************************************************************************)
(* Properties of ResumeParser.parse                                        *)
(***************************************************************************)

\* C21: parse(file_path), for a file the extractor can read, returns a record
\* whose skills are normalize_skills of the extracted skills and the skills
\* found in each experience string, and whose education and experience are
\* the processed entries; it raises only when the extraction fails.
C21_ParseReturnsProcessedData ==
    (pc = "processor:done" /\ call.fn = "parse" /\ call.extraction.t = "return") =>
        /\ result.t = "return"
        /\ result.v = ParsedData(call.extraction.v)

-----------------------------------------------------------------------------
(***************************************************************************)
(* The line scanners, step by step, on texts of opening, partial and       *)
(* other lines                                                             *)
(***************************************************************************)

\* most lines of a scanned text
MaxScanLines == 3

ScanEducationPool ==
    {"Jo Smith", "AWS", "MS, Reed College 2016-now", " B.E., Rice Institute GPA: 3.5"}

ScanExperiencePool ==
    {"Jane Doe", "Work history", "Developer, Initech LLC, 2030 - present",
     " Engineer, Acme Corp 2018-2021"}

ScanTexts(pool) == {PyStr(JoinLines(ls)) : ls \in SeqsUpTo(pool, MaxScanLines)}

ScannersInit ==
    /\ resume_text \in IF pc = "education" THEN ScanTexts(ScanEducationPool)
                       ELSE ScanTexts(ScanExperiencePool)
    /\ call_date = "2024-06-15"
    /\ text_lines = <<>>
    /\ line_index = 0
    /\ current = IF pc = "education" THEN NoEducation ELSE NoExperience
    /\ entries = <<>>

(***************************************************************************)
(* Properties of the line scanners as accumulators                         *)
(***************************************************************************)

ScanningEducation == pc \in {"education:loop", "education:done"}
ScanningExperience == pc \in {"experience:loop", "experience:done"}
ScanDone == pc \in {"education:done", "experience:done"}

\* the stripped line i of the text
LineAt(i) == Strip(text_lines[i])

\* the line matches a keyword pattern of the scanner that runs
OpensWith(line) ==
    /\ line # ""
    /\ IF ScanningEducation THEN IsEducationLine(line) ELSE IsExperienceLine(line)

\* the lines read so far
LinesRead == IF ScanDone THEN Len(text_lines) ELSE line_index - 1

\* the accumulator a line opens, from the fields of that line alone
AccumulatorOf(line) ==
    IF ScanningEducation THEN NewEducation(line, call_date)
    ELSE NewExperience(line, call_date)

\* both required fields of an accumulator are non-empty
HasRequired(acc) ==
    IF ScanningEducation THEN acc.degree # "" /\ acc.institution # ""
    ELSE acc.title # "" /\ acc.company # ""

\* for each line read: whether it opens an accumulator, and which
Opened(lines) ==
    [i \in 1..LinesRead |->
        IF OpensWith(lines[i]) THEN AccumulatorOf(lines[i]) ELSE [t |-> "none"]]

OpeningLines(opened) == {i \in DOMAIN opened : opened[i].t = "dict"}

LastOf(S) == CHOOSE i \in S : \A j \in S : j <= i

\* the opening lines whose accumulator is closed: all but the last while the
\* loop runs, all at the end of input
ClosedLines(opening) ==
    IF ScanDone \/ opening = {} THEN opening ELSE opening \ {LastOf(opening)}

EmittingLines(opened, closed) == {i \in closed : HasRequired(opened[i])}

\* the k-th line of S in line order
KthOf(S, k) == CHOOSE i \in S : Cardinality({j \in S : j <= i}) = k

\* the accumulator at hand is the one the last opening line opened
CurrentIsLastOpened(opened, opening) ==
    current = IF opening = {}
              THEN (IF ScanningEducation THEN NoEducation ELSE NoExperience)
              ELSE opened[LastOf(opening)]

\* the entries are the accumulators of the emitting lines, in line order
EntriesAreEmitted(opened, emitting) ==
    /\ Len(entries) = Cardinality(emitting)
    /\ \A k \in 1..Len(entries) : entries[k] = opened[KthOf(emitting, k)]

ScannedAs(opened, opening) ==
    /\ CurrentIsLastOpened(opened, opening)
    /\ EntriesAreEmitted(opened, EmittingLines(opened, ClosedLines(opening)))

ScannedFrom(opened) == ScannedAs(opened, OpeningLines(opened))

\* C22: in both line scanners every line that matches a keyword pattern opens
\* a fresh accumulator and closes the one before; a closed accumulator is an
\* entry exactly if both required fields are non-empty; every entry holds
\* the fields of its own line only; entries are in line order, at most one
\* per matching line.
C22_AccumulatorsOpenAndClose ==
    (ScanningEducation \/ ScanningExperience) =>
        ScannedFrom(Opened([i \in DOMAIN text_lines |-> LineAt(i)]))

\* end of input of a text of three opening lines: the first discarded, the
\* other two emitted
C22_Witness ==
    /\ pc = "education:done"
    /\ Len(text_lines) = 3
    /\ Len(entries) = 2
    /\ entries[1] # entries[2]
    /\ OpensWith(LineAt(1))

-----------------------------------------------------------------------------
(***************************************************************************)
(* analyze_job_requirements step by step                                   *)
(*                                                                         *)
(* The call is followed from one try block to the next.  printed holds the *)
(* lines the call wrote with print, as the code words them (a formatted    *)
(* line is kept up to its colon).                                          *)
(***************************************************************************)

NoLocals == [response_content |-> "", analysis |-> PyNone]

StepsIdle ==
    /\ locals = NoLocals
    /\ printed = <<>>

\* lines 213-233: the handler of every exception of the call
DefaultReturned(lines) ==
    /\ printed' = printed \o lines \o <<"Error analyzing job requirements">>
    /\ result' = Returned(DefaultStructure)
    /\ pc' = "stages:done"

\* lines 109-161: the job description is checked, the provider is called
\* and its reply stripped
StartAnalysis ==
    /\ pc = "stages"
    /\ IF call.job_description.t # "str" \/ call.job_description.v = ""
       THEN /\ DefaultReturned(<<"=== Starting Job Requirements Analysis ===",
                                 "Invalid job description provided">>)
            /\ locals' = locals
       ELSE IF call.reply.t = "raise"
       THEN /\ DefaultReturned(<<"=== Starting Job Requirements Analysis ===",
                                 "Job Description", "Sending request to Azure OpenAI...">>)
            /\ locals' = locals
       ELSE IF call.reply.t # "str"
       THEN /\ DefaultReturned(<<"=== Starting Job Requirements Analysis ===",
                                 "Job Description", "Sending request to Azure OpenAI...",
                                 "Received response from Azure OpenAI">>)
            /\ locals' = locals
       ELSE IF Strip(call.reply.v) = ""
       THEN /\ DefaultReturned(<<"=== Starting Job Requirements Analysis ===",
                                 "Job Description", "Sending request to Azure OpenAI...",
                                 "Received response from Azure OpenAI", "Raw Response",
                                 "Empty response received from Azure OpenAI">>)
            /\ locals' = [locals EXCEPT !.response_content = ""]
       ELSE /\ printed' = printed \o <<"=== Starting Job Requirements Analysis ===",
                                      "Job Description", "Sending request to Azure OpenAI...",
                                      "Received response from Azure OpenAI", "Raw Response">>
            /\ locals' = [locals EXCEPT !.response_content = Strip(call.reply.v)]
            /\ result' = result
            /\ pc' = "stages:direct"
    /\ UNCHANGED <<call, not_clvars>>

\* a stage has parsed the value: it is bound to analysis
Parsed(parsed, line) ==
    /\ locals' = [locals EXCEPT !.analysis = parsed.v]
    /\ printed' = Append(printed, line)
    /\ result' = result
    /\ pc' = "stages:validate"

\* an order of the stages in which the second runs whatever the first gave
DirectParse_ThenEmbedded ==
    /\ pc = "stages:direct"
    /\ locals' = [locals EXCEPT !.analysis = JsonLoads(locals.response_content).v]
    /\ printed' = printed \o <<"Error parsing JSON response",
                               "Attempting to clean and parse response...">>
    /\ pc' = "stages:embedded"
    /\ UNCHANGED <<call, result, not_clvars>>

\* lines 164-170: json.loads of the whole reply
DirectParse ==
    /\ pc = "stages:direct"
    /\ IF JsonLoads(locals.response_content).ok
       THEN Parsed(JsonLoads(locals.response_content), "Successfully parsed JSON response")
       ELSE /\ printed' = printed \o <<"Error parsing JSON response",
                                      "Attempting to clean and parse response...">>
            /\ pc' = "stages:embedded"
            /\ UNCHANGED <<locals, result>>
    /\ UNCHANGED <<call, not_clvars>>

\* lines 174-187 for the match m of the brace pattern
EmbeddedParseOf(m) ==
    IF ~m.found THEN /\ DefaultReturned(<<"No JSON object found in response">>)
                     /\ locals' = locals
    ELSE IF ExtractedJson(locals.response_content, m).ok
    THEN Parsed(ExtractedJson(locals.response_content, m),
                "Successfully extracted and parsed JSON from response")
    ELSE /\ DefaultReturned(<<"Failed to parse extracted JSON">>)
         /\ locals' = locals

\* lines 171-187: the handler of the JSONDecodeError of the direct parse
EmbeddedParse ==
    /\ pc = "stages:embedded"
    /\ EmbeddedParseOf(ReSearch(BracePattern, locals.response_content))
    /\ UNCHANGED <<call, not_clvars>>

\* line 192 raises TypeError for a value without the operator in, line 199
\* for a value without item assignment
ValidationRaises(analysis) ==
    \/ analysis.t \notin {"dict", "list", "str"}
    \/ analysis.t # "dict" /\ MissingKeys(analysis) # <<>>

\* lines 189-210: the missing keys are filled in and analysis is returned
ValidateAnalysis ==
    /\ pc = "stages:validate"
    /\ IF ValidationRaises(locals.analysis)
       THEN /\ DefaultReturned(IF locals.analysis.t \in {"list", "str"}
                               THEN <<"Missing required keys in response">> ELSE <<>>)
            /\ locals' = locals
       ELSE /\ locals' = [locals EXCEPT !.analysis = Completed(locals.analysis)]
            /\ printed' = printed
                    \o (IF MissingKeys(locals.analysis) # <<>>
                        THEN <<"Missing required keys in response">> ELSE <<>>)
                    \o <<"=== Completed Job Requirements Analysis ===">>
            /\ result' = Returned(Completed(locals.analysis))
            /\ pc' = "stages:done"
    /\ UNCHANGED <<call, not_clvars>>

StagesInit ==
    /\ call \in {JobCall(j, r) : j \in JobDescriptions, r \in ProviderReplies}
    /\ result = NoResult
    /\ StepsIdle

(***************************************************************************)
(* Properties of the recovery stages                                       *)
(***************************************************************************)

Printed(line) == \E i \in DOMAIN printed : printed[i] = line

\* the direct parse was attempted
DirectRan == Printed("Successfully parsed JSON response") \/ Printed("Error parsing JSON response")

\* the embedded payload was looked for, and not found or not parsed
EmbeddedFailed ==
    Printed("No JSON object found in response") \/ Printed("Failed to parse extracted JSON")

EmbeddedRan ==
    EmbeddedFailed \/ Printed("Successfully extracted and parsed JSON from response")

\* the default structure of the exception handler was returned
DefaultsReturned == Printed("Error analyzing job requirements")

\* json.loads rejects the whole reply
DirectFails(content) == ~JsonLoads(content).ok

\* the object of the first stage that parses the reply
FirstParsed(content) ==
    IF JsonLoads(content).ok THEN JsonLoads(content).v
    ELSE ExtractedJson(content, ReSearch(BracePattern, content)).v

\* the embedded payload is looked for only after the direct parse was
\* attempted and failed
EmbeddedAfterDirectFailed ==
    EmbeddedRan =>
        /\ DirectFails(locals.response_content)
        /\ \E i, j \in DOMAIN printed :
              /\ i < j
              /\ printed[i] = "Error parsing JSON response"
              /\ printed[j] = "Attempting to clean and parse response..."
              /\ \A k \in 1..j : printed[k] \notin
                    {"No JSON object found in response", "Failed to parse extracted JSON",
                     "Successfully extracted and parsed JSON from response"}

\* a result that is not the handler's derives from the object of the first
\* stage that parsed
ResultFromFirstParsed ==
    (pc = "stages:done" /\ ~DefaultsReturned) =>
        /\ DirectRan
        /\ result = Returned(Completed(FirstParsed(locals.response_content)))

\* both stages ran and failed
BothFailed == DirectRan /\ DirectFails(locals.response_content) /\ EmbeddedFailed

ParsedNotCompletable ==
    /\ DirectRan
    /\ ~BothFailed
    /\ ValidationRaises(FirstParsed(locals.response_content))

StagesAgree ==
    pc = "stages:done" => result = analyze_job_requirements(call.job_description, call.reply)

-----------------------------------------------------------------------------
(***************************************************************************)
(* parse_resume called twice on one file, and the total computed from the  *)
(* record of an earlier call, while the clock moves on                     *)
(***************************************************************************)

\* most lines of a file that is parsed again
MaxRunLines == 2

\* lines of a current position
OpenEndedLines == {"Developer, Initech LLC, 2019 - present"}

\* other lines that open an experience entry
PastPositionLines == {" Engineer, Acme Corp 2018-2021", "Engineer, Acme Corp"}

RunLines ==
    OpenEndedLines \cup PastPositionLines
    \cup {"Jane Doe", "MS, Reed College", "MS, Reed College GPA: 3.5 2016-2018"}

\* the first call is made on the first of Todays
RunsInit ==
    /\ call \in {FileCall("parse_resume", "cv.txt", TRUE, PyStr(JoinLines(ls)), n, "2024-06-15") :
                    ls \in SeqsUpTo(RunLines, MaxRunLines), n \in PersonPool \cup {""}}
    /\ call.person \in {""} \cup {p.v : p \in Persons(call.extracted)}
    /\ result = <<>>

\* parse_resume(file_path) at the date of the call; result holds what the
\* calls so far have returned
FirstRun ==
    /\ pc = "runs"
    /\ result' = <<parse_resume(call, PersonOf(call), call.today)>>
    /\ pc' = "runs:first"
    /\ UNCHANGED <<call, not_cvars>>

\* parse_resume(file_path) once more, on the same or a later day
SecondRun ==
    /\ pc = "runs:first"
    /\ \E later \in Todays :
        /\ call' = [call EXCEPT !.today = later]
        /\ result' = Append(result, parse_resume(call, PersonOf(call), later))
    /\ pc' = "runs:second"
    /\ UNCHANGED not_cvars

\* _calculate_total_experience(experience) of the record of the first call,
\* on the same or a later day
TotalLater ==
    /\ pc = "runs:first" /\ result[1].t = "return"
    /\ \E later \in Todays :
        /\ call' = [call EXCEPT !.today = later]
        /\ result' = Append(result, _calculate_total_experience(result[1].v.experience))
    /\ pc' = "runs:total"
    /\ UNCHANGED not_cvars

\* C24: two calls of parse_resume on the same file on different days return
\* identical records (education and experience dates and total_experience
\* included).
C24_SameRecordOnAnyDay ==
    pc = "runs:second" => result[2] = result[1]

\* the lines of the file of the call
RunLinesOf(c) == SplitOn(c.extracted.v, "\n")

\* the file has one line of a current position and no other line that opens
\* an experience entry
OneOpenEnded(lines) ==
    /\ Cardinality({i \in 1..Len(lines) : lines[i] \in OpenEndedLines}) = 1
    /\ \A i \in 1..Len(lines) : lines[i] \notin PastPositionLines

\* tenths of a year from a start date to a day
YearsUntil(start, day) ==
    Round1(DaysOfDates(Strptime(PyStr(start)), Strptime(PyStr(day))))

\* C25: the entry of a line 'Developer, Initech LLC, 2019 - present' has
\* start_date '2019-01-01', and its end is resolved when the total is
\* computed: a total computed on a later day than the parse runs to that day.
C25_OpenEndResolvedWhenRead ==
    (pc = "runs:total" /\ OneOpenEnded(RunLinesOf(call))) =>
        /\ Len(result[1].v.experience) = 1
        /\ result[1].v.experience[1].start_date = "2019-01-01"
        /\ result[2] = YearsUntil("2019-01-01", call.today)

\* the education entries of the records that the calls so far returned
EducationEntriesOf(runs) ==
    UNION {{runs[k].v.education[i] : i \in 1..Len(runs[k].v.education)} :
              k \in {k \in 1..Len(runs) : runs[k].t = "return"}}

\* the line an education entry was opened by is its institution (line 318)
HasDateRange(entry) == ReSearch(DateRangePattern, entry.institution).found

HasGpa(entry) == ReSearchIgnoreCase(GpaPattern, entry.institution).found

\* the dates of the entries whose line has no date range
UnspecifiedDates(edus) ==
    UNION {{e.start_date, e.end_date} : e \in {e \in edus : ~HasDateRange(e)}}

\* C26: every education entry that _extract_education produces has a
\* start_date and an end_date that are not null; when its line has no date
\* range they are one fixed "unspecified" value, the same in every entry and
\* every call; its gpa is 0.0 when the line has no GPA.
C26_EducationDefaults ==
    pc = "runs:second" =>
        /\ \A e \in EducationEntriesOf(result) :
            /\ e.start_date # "" /\ e.end_date # ""
            /\ ~HasGpa(e) => e.gpa = FZero
        /\ Cardinality(UnspecifiedDates(EducationEntriesOf(result))) <= 1

-----------------------------------------------------------------------------
(***************************************************************************)
(* _extract_email on texts that hold an address in one of its three        *)
(* spellings, or none                                                      *)
(***************************************************************************)

EmailLocals == {"jd", "J.D"}

EmailSigns == {"@", "[at]", " @ ", "\t@", "@\n", " [at]", "", "[AT]"}

EmailDomains == {"x.io", "X.IO", "xio"}

EmailPrefixes == {"", "Mail: ", "a[at]b.cc\n", ":"}

EmailTexts ==
    {PyStr(p \o l \o s \o d) :
        p \in EmailPrefixes, l \in EmailLocals, s \in EmailSigns, d \in EmailDomains}

EmailInit ==
    /\ call \in {Call("_extract_email", x, "", "2024-06-15") : x \in EmailTexts}
    /\ result = NoResult

\* the variants of the address that match somewhere in text: 1 standard,
\* 2 with [at], 3 with spaces
MatchingVariants(text) ==
    {i \in 1..Len(email_patterns) : ReSearch(email_patterns[i], text).found}

FirstVariant(variants) == CHOOSE i \in variants : \A j \in variants : i <= j

\* s without its whitespace characters
WithoutWhitespace(s) == KeepChars(s, {c \in CharsOf(CodePoints) : ~IsSpaceChar(c)})

HasNoneOf(s, chars) == \A i \in 1..Len(s) : SubSeq(s, i, i) \notin chars

\* the address, normalised, of a match
Normalised(match) == StrLower(WithoutWhitespace(Replace(match, "[at]", "@")))

EmailAsClaimed(text, variants) ==
    IF variants = {} THEN "Not provided"
    ELSE Normalised(Group0(text, ReSearch(email_patterns[FirstVariant(variants)], text)))

\* C27: _extract_email returns the match of the first of the variants
\* standard, [at], spaced that matches anywhere in the text, with '[at]'
\* replaced by '@', without any whitespace character (space, tab, newline)
\* and without upper-case letters; "Not provided" when no variant matches.
C27_EmailNormalised ==
    (pc = "extractor:done" /\ call.fn = "_extract_email" /\ call.text.t = "str") =>
        /\ result = Returned(EmailAsClaimed(call.text.v, MatchingVariants(call.text.v)))
        /\ MatchingVariants(call.text.v) # {} =>
            /\ HasNoneOf(result.v, {" ", "\t", "\n"} \cup CharsOf(UpperCase))
            /\ ~Contains(result.v, "[at]")

-----------------------------------------------------------------------------
(***************************************************************************)
(* search_candidates and rank_candidates with the calls they make: the     *)
(* read of the candidates table, the analyses and the provider requests,   *)
(* while other users store candidates                                      *)
(***************************************************************************)

BoundaryIdle ==
    /\ store = <<>>
    /\ calls = <<>>

\* entries of calls
StoreRead == [op |-> "get_all_candidates", of |-> 0]
JobAnalysis == [op |-> "analyze_job_requirements", of |-> 0]
MatchAnalysis(id) == [op |-> "analyze_candidate_match", of |-> id]
Ranking == [op |-> "rank", of |-> 0]
\* chat.completions.create, for the job (0) or a candidate
ProviderRequest(id) == [op |-> "chat.completions.create", of |-> id]

RunCall(fn, job_description) == [fn |-> fn, job_description |-> job_description]

RunsOfStore ==
    {RunCall(fn, j) : fn \in {"search_candidates", "rank_candidates"},
                      j \in {PyStr(""), PyStr("Senior Python developer")}}

SnapshotInit ==
    /\ store \in InputLists
    /\ calls = <<>>
    /\ call \in RunsOfStore
    /\ result = NoResult
    /\ RankIdle

\* parse_resume of the application stores one more candidate
StoreCandidate ==
    /\ pc \in {"run", "run:job", "run:loop", "run:rank"}
    /\ Len(store) < MaxCandidates
    /\ store' = Append(store, [id |-> Len(store) + 1])
    /\ UNCHANGED <<pc, calls, rvars, not_rbvars>>

\* candidates = get_all_candidates() of search_candidates (line 340) and of
\* rank_candidates (line 38): the table is read, or the read raises;
\* search_candidates returns an error for an empty list (lines 341-346)
GetAllCandidates ==
    /\ pc = "run"
    /\ calls' = Append(calls, StoreRead)
    /\ \E store_raises \in BOOLEAN :
          IF store_raises
          THEN /\ status' = "error"
               /\ pc' = "run:done"
               /\ UNCHANGED candidates
          ELSE /\ candidates' = store
               /\ IF call.fn = "rank_candidates"
                  THEN /\ pc' = "run:rank"
                       /\ UNCHANGED status
                  ELSE IF store = <<>>
                  THEN /\ status' = "error"
                       /\ pc' = "run:done"
                  ELSE /\ pc' = "run:job"
                       /\ UNCHANGED status
    /\ UNCHANGED <<store, cand_index, matching_candidates, ranked, not_rbvars>>

\* job_analysis = self.analyze_job_requirements(job_description) (line 353):
\* the provider is asked unless the description is empty (lines 111-113);
\* what comes back is never falsy
AnalyzeJob ==
    /\ pc = "run:job"
    /\ calls' = calls \o <<JobAnalysis>>
                  \o (IF call.job_description.v = "" THEN <<>> ELSE <<ProviderRequest(0)>>)
    /\ cand_index' = 1
    /\ pc' = "run:loop"
    /\ UNCHANGED <<store, candidates, matching_candidates, ranked, status, not_rbvars>>

\* one iteration of the loop of lines 365-372: analyze_candidate_match asks
\* the provider, unless building the prompt has raised, and the score is
\* compared with the threshold
AnalyzeMatch ==
    /\ pc = "run:loop"
    /\ cand_index <= Len(candidates)
    /\ \E reply \in Replies, asked \in BOOLEAN :
          /\ reply.t # "error" => asked
          /\ calls' = calls \o <<MatchAnalysis(candidates[cand_index].id)>>
                        \o (IF asked THEN <<ProviderRequest(candidates[cand_index].id)>>
                            ELSE <<>>)
          /\ IF ThresholdRaises(analyze_candidate_match(reply))
             THEN /\ status' = "error"
                  /\ pc' = "run:done"
                  /\ UNCHANGED <<cand_index, matching_candidates>>
             ELSE /\ matching_candidates' =
                        IF AtLeastThreshold(analyze_candidate_match(reply))
                        THEN Append(matching_candidates,
                                    Scored(candidates[cand_index],
                                           analyze_candidate_match(reply).f))
                        ELSE matching_candidates
                  /\ cand_index' = cand_index + 1
                  /\ UNCHANGED <<pc, status>>
    /\ UNCHANGED <<store, candidates, ranked, not_rbvars>>

\* lines 375-386: the sort and the success result
ReturnMatches ==
    /\ pc = "run:loop"
    /\ cand_index > Len(candidates)
    /\ ranked' = ListSort(matching_candidates, TRUE)
    /\ status' = "success"
    /\ pc' = "run:done"
    /\ UNCHANGED <<store, calls, candidates, cand_index, matching_candidates, not_rbvars>>

\* ranked_candidates = self.ranker.rank(candidates, job_description) of
\* rank_candidates (line 39); an exception is answered with an error text
RankSnapshot ==
    /\ pc = "run:rank"
    /\ calls' = Append(calls, Ranking)
    /\ \E raises \in BOOLEAN, similarity_scores \in [1..Len(candidates) -> ScorePool] :
          IF raises \/ candidates = <<>>
          THEN /\ status' = "error"
               /\ UNCHANGED ranked
          ELSE /\ ranked' = ListSort(ZipScores(candidates, similarity_scores), TRUE)
               /\ status' = "returned"
    /\ pc' = "run:done"
    /\ UNCHANGED <<store, candidates, cand_index, matching_candidates, not_rbvars>>

\* the entries of calls that op made
CallsOf(ops) == SelectSeq(calls, LAMBDA c : c.op \in ops)

\* the analyses of a complete pass over the snapshot
AnalysesOf(snapshot) ==
    <<JobAnalysis>> \o [i \in 1..Len(snapshot) |-> MatchAnalysis(snapshot[i].id)]

\* C28: a run of search_candidates or rank_candidates reads the candidates
\* table once, before anything else, and scores what it read; on an empty
\* snapshot search_candidates returns status "error" and has asked the
\* provider nothing; otherwise it has made one job analysis and then one
\* match analysis for each candidate of the snapshot, in order, none twice.
C28_OneReadOnePass ==
    pc = "run:done" =>
        /\ calls[1] = StoreRead
        /\ CallsOf({"get_all_candidates"}) = <<StoreRead>>
        /\ call.fn = "search_candidates" =>
            IF candidates = <<>>
            THEN /\ status = "error"
                 /\ CallsOf({"chat.completions.create"}) = <<>>
            ELSE CallsOf({"analyze_job_requirements", "analyze_candidate_match"})
                    = AnalysesOf(candidates)
        /\ (call.fn = "rank_candidates" /\ status = "returned") =>
            /\ Len(ranked) = Len(candidates)
            /\ \A i \in 1..Len(candidates) : \E j \in 1..Len(ranked) : ranked[j].id = i

-----------------------------------------------------------------------------
(***************************************************************************)
(* CandidateRanker.rank and JobSearch.search on dicts that are objects:    *)
(* a list holds references into a heap of dicts, dict.copy() makes a new   *)
(* object and an item assignment changes the object it is made on          *)
(***************************************************************************)

\* longest list that is ranked
MaxRanked == 3

\* a dict with a 'name' and, maybe, a 'score'
Dict(name, score) == [name |-> name, score |-> score]

NoScore == PyOther("missing")

DictPool == {Dict("a", NoScore), Dict("b", NoScore), Dict("a", PyFloat(Tenths(3)))}

\* candidate.copy() that is the candidate itself
DictCopy_Alias(heap, ref) == [heap |-> heap, ref |-> ref]

\* candidate.copy(): a new object with the items of the one at ref
DictCopy(heap, ref) == [heap |-> Append(heap, heap[ref]), ref |-> Len(heap) + 1]

\* candidate_copy['score'] = float(score)
SetScore(heap, ref, score) == [heap EXCEPT ![ref].score = PyFloat(score)]

\* lines 31-35: ranked_candidates and the heap after the loop
RECURSIVE CopiesWithScores(_, _, _, _, _)
CopiesWithScores(heap, refs, similarity_scores, i, ranked_candidates) ==
    IF i > Len(refs) THEN [heap |-> heap, refs |-> ranked_candidates]
    ELSE CopiesWithScores(SetScore(DictCopy(heap, refs[i]).heap, DictCopy(heap, refs[i]).ref,
                                   similarity_scores[i]),
                          refs, similarity_scores, i + 1,
                          Append(ranked_candidates, DictCopy(heap, refs[i]).ref))

\* the objects of a list with their sort keys
Keyed(heap, refs) == [i \in 1..Len(refs) |-> [id |-> refs[i], score |-> heap[refs[i]].score.f]]

\* line 38: ranked_candidates.sort(key=lambda x: x['score'], reverse=True)
SortedByScore(heap, refs) ==
    [i \in 1..Len(refs) |-> ListSort(Keyed(heap, refs), TRUE)[i].id]

\* the dicts a list holds
Deref(heap, refs) == [i \in 1..Len(refs) |-> heap[refs[i]]]

\* what the caller has after rank has returned: its own list, the returned
\* list, and whether they share an object
Outcome(cands, after) ==
    [candidates |-> Deref(after.heap, [i \in 1..Len(cands) |-> i]),
     ranked |-> Deref(after.heap, SortedByScore(after.heap, after.refs)),
     shared |-> \E i \in 1..Len(after.refs) : after.refs[i] <= Len(cands)]

\* rank(candidates, job_description) and search(query, jobs) after the
\* vectorization, for candidates that are the objects 1..n of the heap
rank(cands, similarity_scores) ==
    Outcome(cands,
            CopiesWithScores(cands, [i \in 1..Len(cands) |-> i],
                             similarity_scores, 1, <<>>))

RankerCall(fn, cands) == [fn |-> fn, candidates |-> cands]

RankerInit ==
    /\ call \in {RankerCall(fn, cs) : fn \in {"rank", "search"},
                                      cs \in SeqsUpTo(DictPool, MaxRanked) \ {<<>>}}
    /\ result = NoResult

\* CandidateRanker.rank(candidates, job_description); fit_transform raises
\* ValueError when no text has a term
RankCandidates ==
    /\ pc = "ranker" /\ call.fn = "rank"
    /\ \E raises \in BOOLEAN, similarity_scores \in [1..Len(call.candidates) -> ScorePool] :
          result' = IF raises THEN Raised("ValueError")
                    ELSE Returned(rank(call.candidates, similarity_scores))
    /\ pc' = "ranker:done"
    /\ UNCHANGED <<call, not_cvars>>

\* JobSearch.search(query, jobs) for a non-empty jobs
SearchJobs ==
    /\ pc = "ranker" /\ call.fn = "search"
    /\ \E raises \in BOOLEAN, similarity_scores \in [1..Len(call.candidates) -> ScorePool] :
          result' = IF raises THEN Raised("ValueError")
                    ELSE Returned(rank(call.candidates, similarity_scores))
    /\ pc' = "ranker:done"
    /\ UNCHANGED <<call, not_cvars>>

\* the bijections of 1..n
Bijections(n) == {p \in [1..n -> 1..n] : \A i, j \in 1..n : p[i] = p[j] => i = j}

\* copy is the dict original with a 'score' added or replaced
CopyWithScore(copy, original) ==
    /\ copy.name = original.name
    /\ copy.score.t = "float"

\* C29: when the vectorization succeeds on a non-empty list, rank (and
\* search) returns one copy of each input candidate with a 'score', as many
\* as the input has and in some order of them, and leaves the input list as
\* it was: same order, no 'score' added to a candidate, no object shared
\* with the returned list.
C29_RankLeavesInputAlone ==
    (pc = "ranker:done" /\ result.t = "return") =>
        /\ result.v.candidates = call.candidates
        /\ ~result.v.shared
        /\ Len(result.v.ranked) = Len(call.candidates)
        /\ \E p \in Bijections(Len(call.candidates)) :
              \A i \in 1..Len(call.candidates) :
                  CopyWithScore(result.v.ranked[p[i]], call.candidates[i])

\* a ranking of three candidates, two of them equal and one with a 'score'
\* of its own, that is not in input order
C29_Witness ==
    /\ pc = "ranker:done" /\ result.t = "return"
    /\ Len(call.candidates) = MaxRanked
    /\ \E i, j \in 1..MaxRanked : i # j /\ call.candidates[i] = call.candidates[j]
    /\ \E i \in 1..MaxRanked : call.candidates[i].score # NoScore
    /\ \E i \in 1..MaxRanked : result.v.ranked[i].name # call.candidates[i].name

-----------------------------------------------------------------------------
(***************************************************************************)
(* JobRequestParser.normalize_job_info on the objects json.loads can give  *)
(***************************************************************************)

JobInfoKeys ==
    <<"job_title", "required_skills", "preferred_skills", "experience_years", "location",
      "job_type", "industry">>

TextKeys == {"job_title", "location", "job_type", "industry"}
SkillListKeys == {"required_skills", "preferred_skills"}

\* the key is not in the object
Absent == [t |-> "absent", v |-> ""]

\* values the JSON object may hold for a key
JsonValues(key) ==
    CASE key = "job_title" -> {PyStr("Data Engineer"), PyNone, PyInt("3")}
      [] key = "required_skills" ->
            {PyList(<<PyStr("Python"), PyStr("SQL")>>), PyList(<<>>), PyNone, PyStr("SQL"),
             PyList(<<PyNone>>)}
      [] key = "preferred_skills" -> {PyList(<<PyStr("AWS")>>), PyNone}
      [] key = "experience_years" -> {PyInt("5"), PyNone, PyStr("5+")}
      [] OTHER -> {PyStr("Remote"), PyNone}

\* the keys of JobInfoKeys that have a value, and their values
PresentKeys(values) == SelectSeq([i \in 1..Len(JobInfoKeys) |-> i], LAMBDA i : values[i] # Absent)

\* the object that holds the keys that have a value
JsonObject(values) ==
    PyDict([i \in 1..Len(PresentKeys(values)) |-> JobInfoKeys[PresentKeys(values)[i]]],
           [i \in 1..Len(PresentKeys(values)) |-> values[PresentKeys(values)[i]]])

MaybeValues(key) == JsonValues(key) \cup {Absent}

JobInfoObjects ==
    {JsonObject(<<t, r, p, y, l, j, n>>) :
        t \in MaybeValues("job_title"), r \in MaybeValues("required_skills"),
        p \in MaybeValues("preferred_skills"), y \in MaybeValues("experience_years"),
        l \in MaybeValues("location"), j \in MaybeValues("job_type"),
        n \in MaybeValues("industry")}

\* job_info.get(key, default)
DictGetOr(d, key, default) == IF DictHas(d, key) THEN DictAt(d, key) ELSE default

\* value.lower(): only a str has the method
Lowered(value) ==
    IF value.t = "str" THEN Returned(PyStr(StrLower(value.v))) ELSE Raised("AttributeError")

\* the items a for loop over value visits: those of a list, the characters
\* of a str
ItemsOf(value) ==
    IF value.t = "list" THEN value.items
    ELSE [i \in 1..Len(value.v) |-> PyStr(SubSeq(value.v, i, i))]

\* [skill.lower() for skill in value]
LoweredItems(value) ==
    IF value.t \notin {"list", "str"} THEN Raised("TypeError")
    ELSE IF \E i \in 1..Len(ItemsOf(value)) : ItemsOf(value)[i].t # "str"
    THEN Raised("AttributeError")
    ELSE Returned(PyList([i \in 1..Len(ItemsOf(value)) |-> Lowered(ItemsOf(value)[i]).v]))

\* the value of one key of normalized (lines 83-89)
NormalizedValue(info, key) ==
    IF key \in TextKeys THEN Lowered(DictGetOr(info, key, PyStr("")))
    ELSE IF key \in SkillListKeys THEN LoweredItems(DictGetOr(info, key, PyList(<<>>)))
    ELSE Returned(DictGetOr(info, key, PyInt("0")))

\* the values of the dict display, the first exception among them if there
\* is one
DisplayOf(values) ==
    IF \E i \in 1..Len(values) : values[i].t = "raise"
    THEN values[CHOOSE i \in 1..Len(values) :
                    /\ values[i].t = "raise"
                    /\ \A j \in 1..(i - 1) : values[j].t # "raise"]
    ELSE Returned(PyDict(JobInfoKeys, [i \in 1..Len(values) |-> values[i].v]))

\* normalize_job_info(info)
normalize_job_info(info) ==
    DisplayOf([i \in 1..Len(JobInfoKeys) |-> NormalizedValue(info, JobInfoKeys[i])])

JobInfoCall(info) == [fn |-> "normalize_job_info", info |-> info]

JobInfoInit ==
    /\ call \in {JobInfoCall(o) : o \in JobInfoObjects}
    /\ result = NoResult

NormalizeJobInfo ==
    /\ pc = "job_info"
    /\ result' = normalize_job_info(call.info)
    /\ pc' = "job_info:done"
    /\ UNCHANGED <<call, not_cvars>>

\* a value a key can be normalised from: a str for a text key, a list of
\* str for a skill list, a number for experience_years
Usable(key, value) ==
    IF key \in TextKeys THEN value.t = "str"
    ELSE IF key \in SkillListKeys
    THEN value.t = "list" /\ \A i \in 1..Len(value.items) : value.items[i].t = "str"
    ELSE value.t = "int"

\* the documented default of a key
JobInfoDefault(key) ==
    IF key \in TextKeys THEN PyStr("")
    ELSE IF key \in SkillListKeys THEN PyList(<<>>)
    ELSE PyInt("0")

\* the value of a key with its text in lower case
LowerCased(value) ==
    IF value.t = "str" THEN PyStr(StrLower(value.v))
    ELSE IF value.t = "list"
    THEN PyList([i \in 1..Len(value.items) |-> PyStr(StrLower(value.items[i].v))])
    ELSE value

ValueAsClaimed(info, key) ==
    IF DictHas(info, key) /\ Usable(key, DictAt(info, key))
    THEN LowerCased(DictAt(info, key))
    ELSE JobInfoDefault(key)

\* C30: for every JSON object (any of the seven keys present or not, null
\* among the values) normalize_job_info does not raise and returns a mapping
\* with all seven keys, where a key without a usable value has its default
\* ('' for a text, [] for a skill list, 0 for experience_years) and every
\* text is in lower case.
C30_NormalizeNeverRaises ==
    pc = "job_info:done" =>
        result = Returned(PyDict(JobInfoKeys,
                                 [i \in 1..Len(JobInfoKeys) |->
                                     ValueAsClaimed(call.info, JobInfoKeys[i])]))

-----------------------------------------------------------------------------
(***************************************************************************)
(* Specifications                                                          *)
(***************************************************************************)

InitNormalize ==
    /\ pc = "normalize"
    /\ NormalizeInit
    /\ ExperienceIdle /\ SimilarityIdle /\ RankIdle /\ ScanIdle
    /\ CallIdle /\ ConcurrentIdle /\ StepsIdle /\ BoundaryIdle

NextNormalize == Normalize \/ NormalizeAgain

SpecNormalize == InitNormalize /\ [][NextNormalize]_vars

InitExperience ==
    /\ pc = "total:loop"
    /\ ExperienceInit
    /\ NormalizeIdle /\ SimilarityIdle /\ RankIdle /\ ScanIdle
    /\ CallIdle /\ ConcurrentIdle /\ StepsIdle /\ BoundaryIdle

NextExperience == TotalStep \/ TotalReturn

SpecExperience == InitExperience /\ [][NextExperience]_vars

InitSimilarity ==
    /\ pc = "similarity"
    /\ SimilarityInit
    /\ NormalizeIdle /\ ExperienceIdle /\ RankIdle /\ ScanIdle
    /\ CallIdle /\ ConcurrentIdle /\ StepsIdle /\ BoundaryIdle

NextSimilarity == CalculateSimilarity

SpecSimilarity == InitSimilarity /\ [][NextSimilarity]_vars

InitRank ==
    /\ pc \in {"rank", "search", "search_candidates"}
    /\ RankInit
    /\ NormalizeIdle /\ ExperienceIdle /\ SimilarityIdle /\ ScanIdle
    /\ CallIdle /\ ConcurrentIdle /\ StepsIdle /\ BoundaryIdle

NextRank ==
    \/ Rank
    \/ Search
    \/ SearchCandidates
    \/ AnalyzeCandidate
    \/ SearchCandidatesReturn

SpecRank == InitRank /\ [][NextRank]_vars

InitEducation ==
    /\ pc = "education"
    /\ EducationInit
    /\ NormalizeIdle /\ ExperienceIdle /\ SimilarityIdle /\ RankIdle
    /\ CallIdle /\ ConcurrentIdle /\ StepsIdle /\ BoundaryIdle

NextEducation == ExtractEducation \/ EducationLine \/ EducationReturn

SpecEducation == InitEducation /\ [][NextEducation]_vars

InitExtractExperience ==
    /\ pc = "experience"
    /\ ScanExperienceInit
    /\ NormalizeIdle /\ ExperienceIdle /\ SimilarityIdle /\ RankIdle
    /\ CallIdle /\ ConcurrentIdle /\ StepsIdle /\ BoundaryIdle

NextExtractExperience == ExtractExperience \/ ExperienceLine \/ ExperienceReturn

SpecExtractExperience == InitExtractExperience /\ [][NextExtractExperience]_vars

InitExtractors ==
    /\ pc = "extractor"
    /\ ExtractorInit
    /\ NormalizeIdle /\ ExperienceIdle /\ SimilarityIdle /\ RankIdle
    /\ ScanIdle /\ ConcurrentIdle /\ StepsIdle /\ BoundaryIdle

NextExtractors ==
    \/ ExtractName
    \/ ExtractEmail
    \/ ExtractPhone
    \/ ExtractSkills
    \/ ExtractEducationCall
    \/ ExtractExperienceCall

SpecExtractors == InitExtractors /\ [][NextExtractors]_vars

InitParser ==
    /\ pc = "parser"
    /\ ParserInit
    /\ NormalizeIdle /\ ExperienceIdle /\ SimilarityIdle /\ RankIdle
    /\ ScanIdle /\ ConcurrentIdle /\ StepsIdle /\ BoundaryIdle

NextParser == ReadFile \/ ParseResume

SpecParser == InitParser /\ [][NextParser]_vars

InitJob ==
    /\ pc = "job"
    /\ JobInit
    /\ NormalizeIdle /\ ExperienceIdle /\ SimilarityIdle /\ RankIdle
    /\ ScanIdle /\ ConcurrentIdle /\ StepsIdle /\ BoundaryIdle

NextJob == AnalyzeJobRequirements

SpecJob == InitJob /\ [][NextJob]_vars

InitCalculator ==
    /\ pc = "calculator"
    /\ CalculatorInit
    /\ NormalizeIdle /\ ExperienceIdle /\ SimilarityIdle /\ RankIdle
    /\ ScanIdle /\ ConcurrentIdle /\ StepsIdle /\ BoundaryIdle

NextCalculator == NewCalculator \/ CalculateSimilarityCall

SpecCalculator == InitCalculator /\ [][NextCalculator]_vars

InitConcurrent ==
    /\ pc = "threads"
    /\ ConcurrentInit
    /\ NormalizeIdle /\ ExperienceIdle /\ SimilarityIdle /\ RankIdle
    /\ ScanIdle /\ CallIdle /\ StepsIdle /\ BoundaryIdle

NextConcurrent ==
    \/ \E c \in Threads : FitStep(c)
    \/ \E c \in Threads : TransformStep(c)
    \/ \E c \in Threads : ReturnStep(c)

SpecConcurrent == InitConcurrent /\ [][NextConcurrent]_vars

InitProcessor ==
    /\ pc = "processor"
    /\ ProcessorInit
    /\ NormalizeIdle /\ ExperienceIdle /\ SimilarityIdle /\ RankIdle
    /\ ScanIdle /\ ConcurrentIdle /\ StepsIdle /\ BoundaryIdle

NextProcessor == Parse \/ ProcessEducation \/ ProcessExperience

SpecProcessor == InitProcessor /\ [][NextProcessor]_vars

InitScanners ==
    /\ pc \in {"education", "experience"}
    /\ ScannersInit
    /\ NormalizeIdle /\ ExperienceIdle /\ SimilarityIdle /\ RankIdle
    /\ CallIdle /\ ConcurrentIdle /\ StepsIdle /\ BoundaryIdle

NextScanners ==
    \/ ExtractEducation \/ EducationLine \/ EducationReturn
    \/ ExtractExperience \/ ExperienceLine \/ ExperienceReturn

SpecScanners == InitScanners /\ [][NextScanners]_vars

InitStages ==
    /\ pc = "stages"
    /\ StagesInit
    /\ NormalizeIdle /\ ExperienceIdle /\ SimilarityIdle /\ RankIdle
    /\ ScanIdle /\ ConcurrentIdle /\ BoundaryIdle

NextStages == StartAnalysis \/ DirectParse \/ EmbeddedParse \/ ValidateAnalysis

SpecStages == InitStages /\ [][NextStages]_vars

InitRuns ==
    /\ pc = "runs"
    /\ RunsInit
    /\ NormalizeIdle /\ ExperienceIdle /\ SimilarityIdle /\ RankIdle
    /\ ScanIdle /\ ConcurrentIdle /\ StepsIdle /\ BoundaryIdle

NextRuns == FirstRun \/ SecondRun \/ TotalLater

SpecRuns == InitRuns /\ [][NextRuns]_vars

InitEmail ==
    /\ pc = "extractor"
    /\ EmailInit
    /\ NormalizeIdle /\ ExperienceIdle /\ SimilarityIdle /\ RankIdle
    /\ ScanIdle /\ ConcurrentIdle /\ StepsIdle /\ BoundaryIdle

NextEmail == ExtractEmail

SpecEmail == InitEmail /\ [][NextEmail]_vars

InitSnapshot ==
    /\ pc = "run"
    /\ SnapshotInit
    /\ NormalizeIdle /\ ExperienceIdle /\ SimilarityIdle
    /\ ScanIdle /\ ConcurrentIdle /\ StepsIdle

NextSnapshot ==
    \/ StoreCandidate
    \/ GetAllCandidates
    \/ AnalyzeJob
    \/ AnalyzeMatch
    \/ ReturnMatches
    \/ RankSnapshot

SpecSnapshot == InitSnapshot /\ [][NextSnapshot]_vars

InitRanker ==
    /\ pc = "ranker"
    /\ RankerInit
    /\ NormalizeIdle /\ ExperienceIdle /\ SimilarityIdle /\ RankIdle
    /\ ScanIdle /\ ConcurrentIdle /\ StepsIdle /\ BoundaryIdle

NextRanker == RankCandidates \/ SearchJobs

SpecRanker == InitRanker /\ [][NextRanker]_vars

InitJobInfo ==
    /\ pc = "job_info"
    /\ JobInfoInit
    /\ NormalizeIdle /\ ExperienceIdle /\ SimilarityIdle /\ RankIdle
    /\ ScanIdle /\ ConcurrentIdle /\ StepsIdle /\ BoundaryIdle

NextJobInfo == NormalizeJobInfo

SpecJobInfo == InitJobInfo /\ [][NextJobInfo]_vars

=============================================================================
